---- MODULE Spec2Model ----
(***************************************************************************)
(* RustScribe: the job poller (TranscriptionProcessor::wait_for_completion)*)
(* and the transcript assembler (TranscriptionProcessor::process_segments) *)
(* of src/src/transcribe/processor.rs, the pipeline                        *)
(* (TranscriptionPipeline::transcribe_from_url) of                         *)
(* src/src/transcribe/mod.rs, and the helpers of src/src/utils/mod.rs.     *)
(*                                                                         *)
(* Conventions.  Option<T> is a sequence of length 0 (None) or 1 (Some).   *)
(* A numeric string is <<"num", v>>, any other string <<"junk">>.  Times   *)
(* are f64 seconds counted in half-second ticks (OneSecond ticks to the    *)
(* second); confidences are f64 values kept as normalised fractions.       *)
(* Floating-point rounding is not modelled.  Text is a sequence of         *)
(* one-character strings, so that trim and ends_with are computed.         *)
(***************************************************************************)
EXTENDS Integers, Sequences, FiniteSets, TLC

VARIABLES
    \* ---- wait_for_completion ----
    pc,                     \* position of the invocation
    check_count,            \* processor.rs:105
    job,                    \* the TranscriptionJob of the latest successful query
    log,                    \* history: queries, progress updates, sleeps, fetches
    transcript_json,        \* Option: body returned by download_transcript
    outcome,                \* Option: the Result returned by wait_for_completion
    \* ---- process_segments ----
    spc,                    \* position inside process_segments
    results,                \* TranscriptResults.items, the input stream
    max_segment_length,     \* self.max_segment_length, in ticks
    idx,                    \* index of the next item of the running pass
    words,                  \* processor.rs:227
    seg,                    \* the locals of the second pass and `segments`
    cur_src,                \* history: indices of the items absorbed in the accumulator
    seg_src,                \* history: for each pushed segment, the indices of its items
    lost,                   \* history: indices of items of accumulators dropped unpushed
    \* ---- transcribe_from_url ----
    ppc,                    \* position of the invocation
    args,                   \* the arguments and the configuration read
    locals,                 \* audio_info, audio_path, s3_key, job_id, result
    bucket,                 \* the keys of the objects in the S3 bucket
    calls,                  \* history: the stages run and how each ended
    returned,               \* Option: the Result returned by transcribe_from_url
    \* ---- a function called on its own ----
    fn_pc,                  \* "call" before the call, "return" after it
    fn_in,                  \* the argument
    fn_out,                 \* the value returned
    \* ---- concurrent invocations of wait_for_completion ----
    tasks,                  \* for each invocation: its locals and its history
    answers                 \* for each invocation: what the service answers it

pollVars == <<pc, check_count, job, log, transcript_json, outcome>>
segVars  == <<spc, results, max_segment_length, idx, words, seg, cur_src, seg_src, lost>>
pipeVars == <<ppc, args, locals, bucket, calls, returned>>
fnVars   == <<fn_pc, fn_in, fn_out>>
taskVars == <<tasks, answers>>
vars     == <<pollVars, segVars, pipeVars, fnVars, taskVars>>

-----------------------------------------------------------------------------
(* Bounds of the model                                                     *)

MaxChecks == 16     \* status checks explored in one invocation
MaxItems  == 3      \* items in an input stream
MaxTime   == 4      \* largest timestamp of an input item, in ticks
MaxWaits  == 2      \* InProgress answers to one of two concurrent invocations
MaxChars  == 3      \* characters of an argument of sanitize_filename

-----------------------------------------------------------------------------
(* Option, strings, numbers                                                *)

None      == <<>>
Some(x)   == <<x>>
IsSome(o) == o # <<>>

Num(v)  == <<"num", v>>
Junk    == <<"junk">>

\* str::parse::<f64>().ok()
ParseF64(s) == IF s[1] = "num" THEN Some(s[2]) ELSE None

\* Option<String>.as_ref().and_then(|s| s.parse::<f64>().ok())
ParseOpt(o) == IF o = None THEN None ELSE ParseF64(o[1])

\* Option::zip
Zip(a, b) == IF IsSome(a) /\ IsSome(b) THEN Some(<<a[1], b[1]>>) ELSE None

\* Option::or
OrElse(a, b) == IF IsSome(a) THEN a ELSE b

RECURSIVE GCD(_, _)
GCD(a, b) == IF b = 0 THEN a ELSE GCD(b, a % b)

Abs(a) == IF a < 0 THEN -a ELSE a

\* the f64 value n/d
Frac(n, d) ==
    LET g == GCD(Abs(n), d)
    IN  IF n = 0 THEN [n |-> 0, d |-> 1] ELSE [n |-> n \div g, d |-> d \div g]

FracAdd(a, b) == Frac(a.n * b.d + b.n * a.d, a.d * b.d)

RECURSIVE FracSum(_)
FracSum(s) == IF s = <<>> THEN Frac(0, 1) ELSE FracAdd(s[1], FracSum(Tail(s)))

\* 1.0 second (processor.rs:273), in ticks
OneSecond == 2

-----------------------------------------------------------------------------
(* Text                                                                    *)

IsWhitespace(c) == c \in {" ", "\t"}

RECURSIVE TrimStart(_)
TrimStart(t) ==
    IF t # <<>> /\ IsWhitespace(t[1]) THEN TrimStart(Tail(t)) ELSE t

RECURSIVE TrimEnd(_)
TrimEnd(t) ==
    IF t # <<>> /\ IsWhitespace(t[Len(t)])
    THEN TrimEnd(SubSeq(t, 1, Len(t) - 1)) ELSE t

\* str::trim
Trim(t) == TrimEnd(TrimStart(t))

\* char::is_alphanumeric, of the characters of the model
IsAlphanumeric(c) == c \in {"a", "b", "1"}

\* str::ends_with(char)
EndsWith(t, c) == t # <<>> /\ t[Len(t)] = c

-----------------------------------------------------------------------------
(* The raw annotation document (processor.rs:22-59)                        *)

Alt(content, confidence) == [confidence |-> confidence, content |-> content]

Item(type, start, end, alts, speaker) ==
    [item_type |-> type, start_time |-> start, end_time |-> end,
     alternatives |-> alts, speaker_label |-> speaker]

Pron(start, end, alts, speaker) == Item("pronunciation", start, end, alts, speaker)
Punct(alts)                     == Item("punctuation", None, None, alts, None)

-----------------------------------------------------------------------------
(* process_segments, first pass (processor.rs:229-246)                     *)

\* a bug: the end of the word is taken from its start
ExtractWordStartTwice(item) ==
    IF item.item_type = "pronunciation"
       /\ IsSome(item.start_time) /\ IsSome(item.end_time)
       /\ IsSome(ParseF64(item.start_time[1])) /\ IsSome(ParseF64(item.end_time[1]))
       /\ item.alternatives # <<>>
    THEN << [word       |-> item.alternatives[1].content,
             start_time |-> ParseF64(item.start_time[1])[1],
             end_time   |-> ParseF64(item.start_time[1])[1],
             confidence |-> ParseOpt(item.alternatives[1].confidence),
             speaker_id |-> item.speaker_label] >>
    ELSE <<>>

\* the WordTimestamp pushed for one item: a sequence of length 0 or 1
ExtractWord(item) ==
    IF item.item_type = "pronunciation"
       /\ IsSome(item.start_time) /\ IsSome(item.end_time)
       /\ IsSome(ParseF64(item.start_time[1])) /\ IsSome(ParseF64(item.end_time[1]))
       /\ item.alternatives # <<>>
    THEN << [word       |-> item.alternatives[1].content,
             start_time |-> ParseF64(item.start_time[1])[1],
             end_time   |-> ParseF64(item.end_time[1])[1],
             confidence |-> ParseOpt(item.alternatives[1].confidence),
             speaker_id |-> item.speaker_label] >>
    ELSE <<>>

-----------------------------------------------------------------------------
(* process_segments, second pass (processor.rs:248-338)                    *)

\* a bug: the mean of no confidence is 0
average_confidence_zero_of_empty(confidences) ==
    LET s == FracSum(confidences)
    IN  IF confidences = <<>> THEN Some(Frac(0, 1))
        ELSE Some(Frac(s.n, s.d * Len(confidences)))

\* processor.rs:344-350
average_confidence(confidences) ==
    IF confidences = <<>> THEN None
    ELSE LET s == FracSum(confidences)
         IN  Some(Frac(s.n, s.d * Len(confidences)))

\* the locals declared at processor.rs:226 and 249-253
InitLocals ==
    [current_segment_text |-> <<>>,
     current_start_time   |-> None,
     current_end_time     |-> None,
     confidences          |-> <<>>,
     current_speaker      |-> None,
     segments             |-> <<>>]

\* processor.rs:257-268
start_time(item) == ParseOpt(item.start_time)
end_time(item)   == ParseOpt(item.end_time)
content(item) ==
    IF item.alternatives = <<>> THEN <<>> ELSE item.alternatives[1].content
confidence(item) ==
    IF item.alternatives = <<>> THEN None
    ELSE ParseOpt(item.alternatives[1].confidence)

\* a bug: an absent label is taken to match any speaker
speaker_changed_lenient(st, item) ==
    /\ IsSome(st.current_speaker) /\ IsSome(item.speaker_label)
    /\ st.current_speaker # item.speaker_label

\* processor.rs:271
speaker_changed(st, item) == st.current_speaker # item.speaker_label

\* a bug: only a gap above two seconds splits
time_gap_above_two_seconds(st, item) ==
    LET z == Zip(start_time(item), st.current_end_time)
    IN  IF IsSome(z) THEN z[1][1] - z[1][2] > 2 * OneSecond ELSE FALSE

\* processor.rs:272-274
time_gap(st, item) ==
    LET z == Zip(start_time(item), st.current_end_time)
    IN  IF IsSome(z) THEN z[1][1] - z[1][2] > OneSecond ELSE FALSE

\* a bug: a span of exactly max_segment_length is too long already
segment_too_long_at_the_limit(st, item, maxlen) ==
    LET z == Zip(st.current_start_time, start_time(item))
    IN  IF IsSome(z) THEN z[1][2] - z[1][1] >= maxlen ELSE FALSE

\* processor.rs:276-278
segment_too_long(st, item, maxlen) ==
    LET z == Zip(st.current_start_time, start_time(item))
    IN  IF IsSome(z) THEN z[1][2] - z[1][1] > maxlen ELSE FALSE

\* processor.rs:280
natural_break(item) ==
    \/ EndsWith(content(item), ".")
    \/ EndsWith(content(item), "!")
    \/ EndsWith(content(item), "?")

\* a bug: the span of a natural break is compared with the whole length
past_whole_length(st, item, maxlen) ==
    LET z == Zip(st.current_start_time, start_time(item))
    IN  IF IsSome(z) THEN z[1][2] - z[1][1] > maxlen ELSE FALSE

\* processor.rs:282, 284: current - seg_start > max_segment_length / 2.0
past_min_natural_break_length(st, item, maxlen) ==
    LET z == Zip(st.current_start_time, start_time(item))
    IN  IF IsSome(z) THEN 2 * (z[1][2] - z[1][1]) > maxlen ELSE FALSE

\* processor.rs:283-285
should_split(st, item, maxlen) ==
    \/ speaker_changed(st, item)
    \/ time_gap(st, item)
    \/ segment_too_long(st, item, maxlen)
    \/ (natural_break(item) /\ past_min_natural_break_length(st, item, maxlen))
    \/ st.current_segment_text = <<>>

\* the guards of processor.rs:289-290 and 328-329
Pushes(st) ==
    /\ st.current_segment_text # <<>>
    /\ IsSome(st.current_start_time)
    /\ IsSome(st.current_end_time)

\* processor.rs:291-297 and 330-336
TranscriptSegment(st) ==
    [start_time |-> st.current_start_time[1],
     end_time   |-> st.current_end_time[1],
     text       |-> Trim(st.current_segment_text),
     confidence |-> average_confidence(st.confidences),
     speaker_id |-> st.current_speaker]

\* processor.rs:288-299 and 327-338
PushSegment(st) ==
    IF Pushes(st) THEN Append(st.segments, TranscriptSegment(st)) ELSE st.segments

\* a bug: the start of the closed segment is kept for the new one
SplitHereKeepsStart(st, item) ==
    [current_segment_text |-> content(item),
     current_start_time   |-> OrElse(st.current_start_time, start_time(item)),
     current_end_time     |-> end_time(item),
     confidences          |-> confidence(item),
     current_speaker      |-> item.speaker_label,
     segments             |-> PushSegment(st)]

\* a bug: the new segment keeps the speaker of the closed one
SplitHereKeepsSpeaker(st, item) ==
    [current_segment_text |-> content(item),
     current_start_time   |-> start_time(item),
     current_end_time     |-> end_time(item),
     confidences          |-> confidence(item),
     current_speaker      |-> st.current_speaker,
     segments             |-> PushSegment(st)]

\* a bug: the confidences of the closed segment stay in the list
SplitHereKeepsConfidences(st, item) ==
    [current_segment_text |-> content(item),
     current_start_time   |-> start_time(item),
     current_end_time     |-> end_time(item),
     confidences          |-> st.confidences \o confidence(item),
     current_speaker      |-> item.speaker_label,
     segments             |-> PushSegment(st)]

\* a bug: a new segment whose first item has no end keeps the old end
SplitHereKeepsEnd(st, item) ==
    [current_segment_text |-> content(item),
     current_start_time   |-> start_time(item),
     current_end_time     |-> OrElse(end_time(item), st.current_end_time),
     confidences          |-> confidence(item),
     current_speaker      |-> item.speaker_label,
     segments             |-> PushSegment(st)]

\* processor.rs:287-306
SplitHere(st, item) ==
    [current_segment_text |-> content(item),
     current_start_time   |-> start_time(item),
     current_end_time     |-> end_time(item),
     confidences          |-> confidence(item),
     current_speaker      |-> item.speaker_label,
     segments             |-> PushSegment(st)]

\* a bug: the end of an absorbed item replaces the end even when absent
ContinueSegmentTakesEnd(st, item) ==
    [st EXCEPT
       !.current_segment_text =
           (IF st.current_segment_text # <<>>
            THEN Append(st.current_segment_text, " ")
            ELSE st.current_segment_text) \o content(item),
       !.current_end_time = end_time(item),
       !.confidences = st.confidences \o confidence(item)]

\* processor.rs:307-318
ContinueSegment(st, item) ==
    [st EXCEPT
       !.current_segment_text =
           (IF st.current_segment_text # <<>>
            THEN Append(st.current_segment_text, " ")
            ELSE st.current_segment_text) \o content(item),
       !.current_end_time = OrElse(end_time(item), st.current_end_time),
       !.confidences = st.confidences \o confidence(item)]

\* a bug: punctuation is set apart by a space, like a word
AppendPunctuationSpaced(st, item) ==
    IF item.alternatives # <<>>
    THEN [st EXCEPT !.current_segment_text =
                        Append(st.current_segment_text, " ")
                            \o item.alternatives[1].content]
    ELSE st

\* processor.rs:319-324
AppendPunctuation(st, item) ==
    IF item.alternatives # <<>>
    THEN [st EXCEPT !.current_segment_text =
                        st.current_segment_text \o item.alternatives[1].content]
    ELSE st

\* one iteration of the loop at processor.rs:255-325
SegmentItem(st, item, maxlen) ==
    IF item.item_type = "pronunciation"
    THEN IF should_split(st, item, maxlen)
         THEN SplitHere(st, item)
         ELSE ContinueSegment(st, item)
    ELSE IF item.item_type = "punctuation"
         THEN AppendPunctuation(st, item)
         ELSE st

\* the loop at processor.rs:230-246, from item i on
RECURSIVE ExtractWords(_, _)
ExtractWords(items, i) ==
    IF i > Len(items) THEN <<>>
    ELSE ExtractWord(items[i]) \o ExtractWords(items, i + 1)

\* the loop at processor.rs:255-325, from item i on
RECURSIVE SegmentItems(_, _, _, _)
SegmentItems(st, items, i, maxlen) ==
    IF i > Len(items) THEN st
    ELSE SegmentItems(SegmentItem(st, items[i], maxlen), items, i + 1, maxlen)

\* processor.rs:225-341: <<segments, words>>
process_segments(items, maxlen) ==
    << PushSegment(SegmentItems(InitLocals, items, 1, maxlen)),
       ExtractWords(items, 1) >>

-----------------------------------------------------------------------------
(* Input streams of process_segments                                       *)

Word(c) == <<Alt(<<c>>, None)>>

Hello == <<"H", "e", "l", "l", "o">>
World == <<"w", "o", "r", "l", "d">>
HelloWorld == Hello \o <<" ">> \o World \o <<".">>

\* words of no or one tick anywhere in 0..MaxTime, in any order
TimedItems ==
    { Pron(Some(Num(s)), Some(Num(e)), Word("a"), None) :
        <<s, e>> \in { p \in (0..MaxTime) \X (0..MaxTime) :
                          p[2] - p[1] \in {0, 1} } }

\* one-tick words of three speakers (None is the unlabelled one)
SpeakerItems ==
    { Pron(Some(Num(s)), Some(Num(s + 1)), Word("a"), spk) :
        s \in 0..2, spk \in {None, Some("spk_0"), Some("spk_1")} }

\* present, absent and unparseable times; items without alternatives;
\* punctuation; an item of an unknown type
RawStarts == {None, Some(Junk), Some(Num(1))}
RawEnds   == {None, Some(Junk), Some(Num(2))}
MixedItems ==
    { Pron(s, e, Word("a"), None) : s \in RawStarts, e \in RawEnds }
    \cup { Pron(Some(Num(1)), Some(Num(2)), <<>>, None),
           Punct(Word(".")),
           Item("other", None, None, Word("x"), None) }

\* words with and without a sentence end, an item without alternatives,
\* punctuation
TextItems ==
    { Pron(Some(Num(s)), Some(Num(s + 1)), Word(c), None) :
        s \in 0..2, c \in {"a", "."} }
    \cup { Pron(Some(Num(1)), Some(Num(2)), <<>>, None),
           Punct(Word(".")), Punct(Word("!")) }

\* confidences present, absent and unparseable, of two speakers; punctuation
\* that carries a confidence
RawConfidences ==
    { None, Some(Junk), Some(Num(Frac(1, 2))), Some(Num(Frac(1, 1))) }
ConfidenceItems ==
    { Pron(Some(Num(1)), Some(Num(2)), <<Alt(<<"a">>, c)>>, spk) :
        c \in RawConfidences, spk \in {None, Some("spk_0")} }
    \cup { Punct(<<Alt(<<".">>, Some(Num(Frac(1, 4))))>>) }

StreamsOf(S) == UNION { [1..n -> S] : n \in 0..MaxItems }

\* contiguous one-speaker words of w ticks each, from 0 to `last` ticks
Contiguous(w, last) ==
    [ i \in 1..(last \div w) |->
        Pron(Some(Num((i - 1) * w)), Some(Num(i * w)), Word("a"), Some("spk_0")) ]

\* Scenario A: "Hello" 0.0-0.5, "world" 0.5-1.0, "."
ScenarioA ==
    << Pron(Some(Num(0)), Some(Num(1)), <<Alt(Hello, None)>>, None),
       Pron(Some(Num(1)), Some(Num(2)), <<Alt(World, None)>>, None),
       Punct(Word(".")) >>

\* Scenario B: one speaker, 2.0 s between the end of a word and the next start
ScenarioB ==
    { << Pron(Some(Num(s)), Some(Num(s + d)), Word("a"), None),
         Pron(Some(Num(s + d + 4)), Some(Num(s + d + 5)), Word("a"), None) >> :
        s \in 0..1, d \in 0..1 }

\* Scenario C: one speaker, words from 0 to 12 s one after the other
ScenarioC == { Contiguous(w, 24) : w \in {2, 3, 4, 6} }

\* Scenario D: the speaker changes, no gap, a short span
ScenarioD ==
    { << Pron(Some(Num(0)), Some(Num(1)), Word("a"), a),
         Pron(Some(Num(1)), Some(Num(2)), Word("a"), b) >> :
        <<a, b>> \in { p \in {None, Some("spk_0"), Some("spk_1")}
                             \X {None, Some("spk_0"), Some("spk_1")} : p[1] # p[2] } }

\* max_segment_length 2.0 s: a word at 0.0, a word or a sentence end 1.0 s
\* later, a word 1.0 s or 1.5 s after that
BoundaryLength == 2 * OneSecond
BoundaryStreams ==
    { << Pron(Some(Num(0)), Some(Num(0)), Word("a"), None),
         Pron(Some(Num(OneSecond)), Some(Num(OneSecond)), Word(c), None),
         Pron(Some(Num(s)), Some(Num(s)), Word("a"), None) >> :
        c \in {"a", "."}, s \in {BoundaryLength, BoundaryLength + 1} }

\* a word 0.0-0.5 of confidence 1/2 and no speaker, then a word of
\* confidence 1 whose start and end are absent, unparseable or numbers, of no
\* speaker or of one
UntimedStreams ==
    { << Pron(Some(Num(0)), Some(Num(1)), <<Alt(<<"a">>, Some(Num(Frac(1, 2))))>>, None),
         Pron(s, e, <<Alt(<<"b">>, Some(Num(Frac(1, 1))))>>, spk) >> :
        s \in RawStarts \cup {Some(Num(2))}, e \in RawEnds,
        spk \in {None, Some("spk_0")} }

\* one word whose start time is "-0.5", a string parse::<f64> accepts
NegativeStreams ==
    { << Pron(Some(Num(0 - 1)), Some(Num(e)), Word("a"), None) >> : e \in {0 - 1, 0, 1} }

\* max_segment_length of the scenarios: 10 s (cli/mod.rs:65), in ticks
Families ==
    { [streams |-> StreamsOf(TimedItems),      lengths |-> {2, 3}],
      [streams |-> StreamsOf(SpeakerItems),    lengths |-> {3}],
      [streams |-> StreamsOf(MixedItems),      lengths |-> {3}],
      [streams |-> StreamsOf(TextItems),       lengths |-> {2, 3}],
      [streams |-> StreamsOf(ConfidenceItems), lengths |-> {3}],
      [streams |-> {ScenarioA} \cup ScenarioB \cup ScenarioC \cup ScenarioD,
       lengths |-> {10 * OneSecond}],
      [streams |-> BoundaryStreams,            lengths |-> {BoundaryLength}],
      [streams |-> UntimedStreams,             lengths |-> {3}],
      [streams |-> NegativeStreams,            lengths |-> {3}] }

-----------------------------------------------------------------------------
(* process_segments as a state machine                                     *)

Range(f) == { f[i] : i \in DOMAIN f }

PollIdle ==
    /\ pc = "idle" /\ check_count = 0 /\ job = None /\ log = <<>>
    /\ transcript_json = None /\ outcome = None

SegIdle ==
    /\ spc = "idle" /\ results = <<>> /\ max_segment_length = 0 /\ idx = 0
    /\ words = <<>> /\ seg = InitLocals
    /\ cur_src = <<>> /\ seg_src = <<>> /\ lost = {}

PipeIdle ==
    /\ ppc = "idle" /\ args = <<>> /\ locals = <<>> /\ bucket = {}
    /\ calls = <<>> /\ returned = None

FnIdle == fn_pc = "idle" /\ fn_in = <<>> /\ fn_out = <<>>

TaskIdle == tasks = <<>> /\ answers = <<>>

\* processor.rs:225-227
InitSeg ==
    /\ PollIdle /\ PipeIdle /\ FnIdle /\ TaskIdle
    /\ \E fam \in Families :
          /\ results \in fam.streams
          /\ max_segment_length \in fam.lengths
    /\ spc = "pass1" /\ idx = 1
    /\ words = <<>> /\ seg = InitLocals
    /\ cur_src = <<>> /\ seg_src = <<>> /\ lost = {}

\* processor.rs:230-246, one iteration
Pass1Step ==
    /\ spc = "pass1" /\ idx <= Len(results)
    /\ words' = words \o ExtractWord(results[idx])
    /\ idx' = idx + 1
    /\ UNCHANGED <<spc, results, max_segment_length, seg, cur_src, seg_src, lost>>
    /\ UNCHANGED <<pollVars, pipeVars, fnVars, taskVars>>

\* processor.rs:246-253, the first loop ends and the second begins
Pass1Done ==
    /\ spc = "pass1" /\ idx > Len(results)
    /\ spc' = "pass2" /\ idx' = 1
    /\ seg' = [InitLocals EXCEPT !.segments = seg.segments]
    /\ UNCHANGED <<results, max_segment_length, words, cur_src, seg_src, lost>>
    /\ UNCHANGED <<pollVars, pipeVars, fnVars, taskVars>>

\* the history of a step that closes the accumulator
Closed(pushed, opened) ==
    /\ seg_src' = IF pushed THEN Append(seg_src, cur_src) ELSE seg_src
    /\ lost'    = IF pushed THEN lost ELSE lost \cup Range(cur_src)
    /\ cur_src' = opened

\* processor.rs:255-306, a pronunciation item that opens a segment
Pass2Split ==
    /\ spc = "pass2" /\ idx <= Len(results)
    /\ results[idx].item_type = "pronunciation"
    /\ should_split(seg, results[idx], max_segment_length)
    /\ seg' = SegmentItem(seg, results[idx], max_segment_length)
    /\ Closed(Len(seg'.segments) > Len(seg.segments), <<idx>>)
    /\ idx' = idx + 1
    /\ UNCHANGED <<spc, results, max_segment_length, words>>
    /\ UNCHANGED <<pollVars, pipeVars, fnVars, taskVars>>

\* processor.rs:255-286 and 307-318, a pronunciation item that is absorbed
Pass2Continue ==
    /\ spc = "pass2" /\ idx <= Len(results)
    /\ results[idx].item_type = "pronunciation"
    /\ ~should_split(seg, results[idx], max_segment_length)
    /\ seg' = SegmentItem(seg, results[idx], max_segment_length)
    /\ cur_src' = Append(cur_src, idx)
    /\ idx' = idx + 1
    /\ UNCHANGED <<spc, results, max_segment_length, words, seg_src, lost>>
    /\ UNCHANGED <<pollVars, pipeVars, fnVars, taskVars>>

\* processor.rs:319-324
Pass2Punctuation ==
    /\ spc = "pass2" /\ idx <= Len(results)
    /\ results[idx].item_type = "punctuation"
    /\ seg' = SegmentItem(seg, results[idx], max_segment_length)
    /\ cur_src' = IF results[idx].alternatives # <<>>
                  THEN Append(cur_src, idx) ELSE cur_src
    /\ idx' = idx + 1
    /\ UNCHANGED <<spc, results, max_segment_length, words, seg_src, lost>>
    /\ UNCHANGED <<pollVars, pipeVars, fnVars, taskVars>>

\* processor.rs:255-325, an item that is neither
Pass2Skip ==
    /\ spc = "pass2" /\ idx <= Len(results)
    /\ results[idx].item_type \notin {"pronunciation", "punctuation"}
    /\ seg' = SegmentItem(seg, results[idx], max_segment_length)
    /\ idx' = idx + 1
    /\ UNCHANGED <<spc, results, max_segment_length, words, cur_src, seg_src, lost>>
    /\ UNCHANGED <<pollVars, pipeVars, fnVars, taskVars>>

\* processor.rs:327-340, the final segment and the return
Pass2Done ==
    /\ spc = "pass2" /\ idx > Len(results)
    /\ seg' = [seg EXCEPT !.segments = PushSegment(seg)]
    /\ Closed(Len(seg'.segments) > Len(seg.segments), <<>>)
    /\ spc' = "done"
    /\ UNCHANGED <<results, max_segment_length, idx, words>>
    /\ UNCHANGED <<pollVars, pipeVars, fnVars, taskVars>>

NextSeg ==
    \/ Pass1Step
    \/ Pass1Done
    \/ Pass2Split
    \/ Pass2Continue
    \/ Pass2Punctuation
    \/ Pass2Skip
    \/ Pass2Done

SpecSeg == InitSeg /\ [][NextSeg]_vars

\* ---- average_confidence called on its own ----

\* confidence values in [0,1]
ConfidenceValues == { Frac(n, 4) : n \in 0..4 }

ConfidenceLists == UNION { [1..n -> ConfidenceValues] : n \in 0..MaxItems }

InitAvg ==
    /\ PollIdle /\ SegIdle /\ PipeIdle /\ TaskIdle
    /\ fn_pc = "call" /\ fn_in \in ConfidenceLists /\ fn_out = <<>>

\* processor.rs:344-350, the list aggregated
Average ==
    /\ fn_pc = "call"
    /\ fn_out' = <<average_confidence(fn_in)>>
    /\ fn_pc' = "again"
    /\ UNCHANGED <<fn_in, pollVars, segVars, pipeVars, taskVars>>

\* processor.rs:344-350, the same list aggregated a second time
AverageAgain ==
    /\ fn_pc = "again"
    /\ fn_out' = Append(fn_out, average_confidence(fn_in))
    /\ fn_pc' = "return"
    /\ UNCHANGED <<fn_in, pollVars, segVars, pipeVars, taskVars>>

NextAvg ==
    \/ Average
    \/ AverageAgain

SpecAvg == InitAvg /\ [][NextAvg]_vars

-----------------------------------------------------------------------------
(* The helpers of src/src/utils/mod.rs, each called on its own             *)

\* f64 seconds as arguments of format_duration, in ticks: negative, whole
\* and fractional values up to a little over two hours
Durations == (0 - OneSecond) .. ((2 * 3600 + 62) * OneSecond)

\* `seconds as u64` (utils/mod.rs:41): the fraction is cut off and a
\* negative value becomes 0
AsU64(ticks) == IF ticks < 0 THEN 0 ELSE ticks \div OneSecond

\* a bug: the minutes are those of the whole duration
format_duration_total_minutes(seconds) ==
    LET total_seconds == AsU64(seconds)
        hours   == total_seconds \div 3600
        minutes == total_seconds \div 60
        secs    == total_seconds % 60
    IN  IF hours > 0
        THEN ToString(hours) \o "h " \o ToString(minutes) \o "m " \o ToString(secs) \o "s"
        ELSE IF minutes > 0
             THEN ToString(minutes) \o "m " \o ToString(secs) \o "s"
             ELSE ToString(secs) \o "s"

\* utils/mod.rs:40-53
format_duration(seconds) ==
    LET total_seconds == AsU64(seconds)
        hours   == total_seconds \div 3600
        minutes == (total_seconds % 3600) \div 60
        secs    == total_seconds % 60
    IN  IF hours > 0
        THEN ToString(hours) \o "h " \o ToString(minutes) \o "m " \o ToString(secs) \o "s"
        ELSE IF minutes > 0
             THEN ToString(minutes) \o "m " \o ToString(secs) \o "s"
             ELSE ToString(secs) \o "s"

InitFmt ==
    /\ PollIdle /\ SegIdle /\ PipeIdle /\ TaskIdle
    /\ fn_pc = "call" /\ fn_in \in Durations /\ fn_out = <<>>

\* a call of f on the argument
Returns(v) ==
    /\ fn_pc = "call"
    /\ fn_out' = v
    /\ fn_pc' = "return"
    /\ UNCHANGED <<fn_in, pollVars, segVars, pipeVars, taskVars>>

FormatDuration == Returns(format_duration(fn_in))

NextFmt == FormatDuration

SpecFmt == InitFmt /\ [][NextFmt]_vars

\* letters, digits, the four other characters that are kept, a separator
\* and a tab
FilenameChars == {"a", "1", " ", "-", "_", ".", "/", "\t"}

Filenames == UNION { [1..n -> FilenameChars] : n \in 0..MaxChars }

\* a bug: the name is trimmed before its characters are replaced
sanitize_filename_trims_first(filename) ==
    LET t == Trim(filename)
    IN  [ i \in 1..Len(t) |->
            IF IsAlphanumeric(t[i]) \/ t[i] = " " \/ t[i] = "-"
               \/ t[i] = "_" \/ t[i] = "."
            THEN t[i] ELSE "_" ]

\* utils/mod.rs:56-70
sanitize_filename(filename) ==
    Trim([ i \in 1..Len(filename) |->
             IF IsAlphanumeric(filename[i]) \/ filename[i] = " " \/ filename[i] = "-"
                \/ filename[i] = "_" \/ filename[i] = "."
             THEN filename[i] ELSE "_" ])

InitSan ==
    /\ PollIdle /\ SegIdle /\ PipeIdle /\ TaskIdle
    /\ fn_pc = "call" /\ fn_in \in Filenames /\ fn_out = <<>>

\* the function applied to the argument, and then to what the last call
\* returned
Twice(first, second) ==
    /\ \/ fn_pc = "call" /\ fn_out' = <<first>> /\ fn_pc' = "again"
       \/ fn_pc = "again" /\ fn_out' = Append(fn_out, second) /\ fn_pc' = "return"
    /\ UNCHANGED <<fn_in, pollVars, segVars, pipeVars, taskVars>>

SanitizeFilename ==
    Twice(sanitize_filename(fn_in), sanitize_filename(fn_out[Len(fn_out)]))

NextSan == SanitizeFilename

SpecSan == InitSan /\ [][NextSan]_vars

\* the ASCII letters, for char::to_lowercase
UpperCase == <<"A", "B", "C", "D", "E", "F", "G", "H", "I", "J", "K", "L", "M", "N", "O", "P", "Q", "R", "S", "T", "U", "V", "W", "X", "Y", "Z">>

LowerCase == <<"a", "b", "c", "d", "e", "f", "g", "h", "i", "j", "k", "l", "m", "n", "o", "p", "q", "r", "s", "t", "u", "v", "w", "x", "y", "z">>

\* str::to_lowercase, of ASCII text
to_lowercase(str) ==
    [ i \in 1..Len(str) |->
        IF \E k \in 1..Len(UpperCase) : UpperCase[k] = str[i]
        THEN LowerCase[CHOOSE k \in 1..Len(UpperCase) : UpperCase[k] = str[i]]
        ELSE str[i] ]

\* str::to_uppercase, of ASCII text
to_uppercase(str) ==
    [ i \in 1..Len(str) |->
        IF \E k \in 1..Len(LowerCase) : LowerCase[k] = str[i]
        THEN UpperCase[CHOOSE k \in 1..Len(LowerCase) : LowerCase[k] = str[i]]
        ELSE str[i] ]

\* the first letter in upper case
Capitalized(str) ==
    IF str = <<>> THEN str ELSE to_uppercase(<<Head(str)>>) \o Tail(str)

\* the arms of the match of utils/mod.rs:106-121, in their order
Locales ==
    << 
       [ code |-> <<"e", "n">>, name |-> <<"e", "n", "g", "l", "i", "s", "h">>,
         locale |-> <<"e", "n", "-", "U", "S">> ],
       [ code |-> <<"e", "s">>, name |-> <<"s", "p", "a", "n", "i", "s", "h">>,
         locale |-> <<"e", "s", "-", "E", "S">> ],
       [ code |-> <<"f", "r">>, name |-> <<"f", "r", "e", "n", "c", "h">>,
         locale |-> <<"f", "r", "-", "F", "R">> ],
       [ code |-> <<"d", "e">>, name |-> <<"g", "e", "r", "m", "a", "n">>,
         locale |-> <<"d", "e", "-", "D", "E">> ],
       [ code |-> <<"i", "t">>, name |-> <<"i", "t", "a", "l", "i", "a", "n">>,
         locale |-> <<"i", "t", "-", "I", "T">> ],
       [ code |-> <<"p", "t">>, name |-> <<"p", "o", "r", "t", "u", "g", "u", "e", "s", "e">>,
         locale |-> <<"p", "t", "-", "B", "R">> ],
       [ code |-> <<"j", "a">>, name |-> <<"j", "a", "p", "a", "n", "e", "s", "e">>,
         locale |-> <<"j", "a", "-", "J", "P">> ],
       [ code |-> <<"k", "o">>, name |-> <<"k", "o", "r", "e", "a", "n">>,
         locale |-> <<"k", "o", "-", "K", "R">> ],
       [ code |-> <<"z", "h">>, name |-> <<"c", "h", "i", "n", "e", "s", "e">>,
         locale |-> <<"z", "h", "-", "C", "N">> ],
       [ code |-> <<"a", "r">>, name |-> <<"a", "r", "a", "b", "i", "c">>,
         locale |-> <<"a", "r", "-", "S", "A">> ],
       [ code |-> <<"h", "i">>, name |-> <<"h", "i", "n", "d", "i">>,
         locale |-> <<"h", "i", "-", "I", "N">> ],
       [ code |-> <<"r", "u">>, name |-> <<"r", "u", "s", "s", "i", "a", "n">>,
         locale |-> <<"r", "u", "-", "R", "U">> ] >>

\* a bug: the language is compared as it was written
normalize_language_code_case_sensitive(lang) ==
    IF \E k \in 1..Len(Locales) : lang \in {Locales[k].code, Locales[k].name}
    THEN Locales[CHOOSE k \in 1..Len(Locales) :
                   lang \in {Locales[k].code, Locales[k].name}].locale
    ELSE lang

\* utils/mod.rs:105-123
normalize_language_code(lang) ==
    LET lowered == to_lowercase(lang)
    IN  IF \E k \in 1..Len(Locales) : lowered \in {Locales[k].code, Locales[k].name}
        THEN Locales[CHOOSE k \in 1..Len(Locales) :
                       lowered \in {Locales[k].code, Locales[k].name}].locale
        ELSE lang

\* the codes and names in three spellings, the locales as they are and in
\* lower case, and languages the table does not know
Languages ==
    LET known == UNION { {Locales[k].code, Locales[k].name} : k \in 1..Len(Locales) }
        locales == { Locales[k].locale : k \in 1..Len(Locales) }
    IN  known \cup { to_uppercase(l) : l \in known } \cup { Capitalized(l) : l \in known }
          \cup locales \cup { to_lowercase(l) : l \in locales }
          \cup { <<"z", "h", "-", "T", "W">>, <<"x", "x">>, <<"e", "n", "g">>, <<"E", "N", "-">>, <<>> }

InitLang ==
    /\ PollIdle /\ SegIdle /\ PipeIdle /\ TaskIdle
    /\ fn_pc = "call" /\ fn_in \in Languages /\ fn_out = <<>>

NormalizeLanguageCode ==
    Twice(normalize_language_code(fn_in), normalize_language_code(fn_out[Len(fn_out)]))

NextLang == NormalizeLanguageCode

SpecLang == InitLang /\ [][NextLang]_vars

-----------------------------------------------------------------------------
(* wait_for_completion: the collaborators                                  *)

Ok(v)  == [ok |-> TRUE,  value |-> Some(v), err |-> None]
Err(m) == [ok |-> FALSE, value |-> None,    err |-> Some(m)]

\* aws_sdk_transcribe::types::TranscriptionJobStatus, or no status at all
Statuses ==
    { None, Some("Queued"), Some("InProgress"), Some("Completed"),
      Some("Failed"), Some("Unknown") }

FailureReasons == { None, Some("Unsupported media format"), Some("Unknown error") }

Transcripts ==
    { None, Some([transcript_file_uri |-> None]),
      Some([transcript_file_uri |-> Some("https://s3/job.json")]) }

Jobs ==
    [ transcription_job_status : Statuses,
      failure_reason           : FailureReasons,
      transcript               : Transcripts,
      language_code            : { None, Some("en-US") } ]

\* what send() gives back at processor.rs:150-154
SendResults ==
    { [sent |-> FALSE, transcription_job |-> None] }
    \cup { [sent |-> TRUE, transcription_job |-> j] :
             j \in {None} \cup { Some(x) : x \in Jobs } }

\* Completed is terminal: once reported, a later answer that carries the job
\* carries it as Completed
AfterCompleted ==
    { r \in SendResults :
        r.transcription_job # None =>
            r.transcription_job[1].transcription_job_status = Some("Completed") }

\* processor.rs:149-160
get_transcription_job(resp) ==
    IF ~resp.sent THEN Err("Failed to get transcription job status")
    ELSE IF resp.transcription_job = None THEN Err("Transcription job not found")
    ELSE Ok(resp.transcription_job[1])

\* what the log keeps of a status query
QueryResult(r) ==
    IF ~r.ok THEN "error"
    ELSE IF r.value[1].transcription_job_status = None THEN "None"
    ELSE r.value[1].transcription_job_status[1]

\* the streams of the documents a fetch may return
DocStreams ==
    { <<>>,
      << Pron(Some(Num(0)), Some(Num(1)), <<Alt(Hello, Some(Num(Frac(1, 1))))>>, None),
         Pron(Some(Num(1)), Some(Num(2)), <<Alt(World, Some(Num(Frac(1, 2))))>>, None),
         Punct(<<Alt(<<".">>, None)>>) >>,
      << Pron(Some(Num(0)), Some(Num(1)), <<Alt(Hello, Some(Num(Frac(9, 10))))>>, Some("spk_0")),
         Pron(Some(Num(1)), Some(Num(2)), <<Alt(World, None)>>, Some("spk_1")) >>,
      << Pron(Some(Num(0)), Some(Num(1)), <<Alt(Hello, Some(Num(Frac(1, 1))))>>, Some("spk_0")),
         Pron(Some(Num(1)), Some(Num(2)), <<Alt(World, Some(Num(Frac(1, 2))))>>, Some("spk_0")),
         Pron(Some(Num(2)), Some(Num(3)), <<Alt(Hello, Some(Num(Frac(1, 4))))>>, Some("spk_1")) >>,
      << Pron(Some(Num(0)), Some(Num(1)), <<Alt(Hello, None)>>, None) >> }

\* AwsTranscript.results (processor.rs:32-38)
Documents ==
    [ transcripts : { <<>>, <<[transcript |-> HelloWorld]>>,
                      <<[transcript |-> Hello], [transcript |-> World]>> },
      items       : DocStreams ]

Json(doc) == <<"json", doc>>

HttpOk   == [code |-> 200, display |-> "200 OK"]
NotFound == [code |-> 404, display |-> "404 Not Found"]

\* what reqwest::get and response.text() give back at processor.rs:211-219
HttpResults ==
    { [sent |-> FALSE, status |-> NotFound, text |-> None],
      [sent |-> TRUE,  status |-> NotFound, text |-> None],
      [sent |-> TRUE,  status |-> HttpOk,   text |-> None],
      [sent |-> TRUE,  status |-> HttpOk,   text |-> Some(Junk)] }
    \cup { [sent |-> TRUE, status |-> HttpOk, text |-> Some(Json(d))] : d \in Documents }

\* StatusCode::is_success
is_success(status) == status.code >= 200 /\ status.code <= 299

\* processor.rs:210-222
download_transcript(http) ==
    IF ~http.sent THEN Err("Failed to download transcript")
    ELSE IF ~is_success(http.status) THEN Err("Failed to download transcript: HTTP " \o http.status.display)
    ELSE IF http.text = None THEN Err("Failed to read transcript content")
    ELSE Ok(http.text[1])

\* serde_json::from_str at processor.rs:177-178
from_str(text) ==
    IF text[1] = "json" THEN Ok(text[2]) ELSE Err("Failed to parse transcript JSON")

\* a bug: the interval is computed from the count instead of the count less one
wait_time_off_by_one(count) ==
    IF 5 + count * 2 < 30 THEN 5 + count * 2 ELSE 30

\* processor.rs:122
wait_time(count) ==
    IF 5 + (count - 1) * 2 < 30 THEN 5 + (count - 1) * 2 ELSE 30

\* processor.rs:353-360
RECURSIVE SegmentConfidences(_)
SegmentConfidences(segments) ==
    IF segments = <<>> THEN <<>>
    ELSE segments[1].confidence \o SegmentConfidences(Tail(segments))

\* a bug: a segment without confidence counts as 0
calculate_average_confidence_none_as_zero(segments) ==
    average_confidence(
        [ i \in 1..Len(segments) |->
            IF segments[i].confidence = None THEN Frac(0, 1)
            ELSE segments[i].confidence[1] ])

\* processor.rs:353-360
calculate_average_confidence(segments) ==
    average_confidence(SegmentConfidences(segments))

\* the seconds slept so far; the time of the calls themselves is left out
RECURSIVE Slept(_)
Slept(l) ==
    IF l = <<>> THEN 0
    ELSE (IF l[1][1] = "sleep" THEN l[1][2] ELSE 0) + Slept(Tail(l))

\* the texts of the segments one after the other
RECURSIVE ConcatTexts(_)
ConcatTexts(segments) ==
    IF segments = <<>> THEN <<>>
    ELSE segments[1].text \o ConcatTexts(Tail(segments))

\* a bug: the transcript is rebuilt from the segments
ProcessedTranscriptionFromSegments(doc, j, maxlen, elapsed) ==
    LET sw == process_segments(doc.items, maxlen)
        segments == sw[1]
    IN  [ transcript |-> ConcatTexts(segments),
          segments   |-> segments,
          metadata   |->
              [ job_id              |-> "job",
                language            |-> IF j.language_code = None THEN "unknown"
                                        ELSE j.language_code[1],
                processing_duration |-> Some(elapsed),
                audio_duration      |-> IF segments = <<>> THEN None
                                        ELSE Some(segments[Len(segments)].end_time),
                confidence          |-> calculate_average_confidence(segments),
                completed_at        |-> "now" ],
          words      |-> Some(sw[2]) ]

\* processor.rs:180-206
ProcessedTranscription(doc, j, maxlen, elapsed) ==
    LET sw == process_segments(doc.items, maxlen)
        segments == sw[1]
    IN  [ transcript |-> IF doc.transcripts = <<>> THEN <<>>
                         ELSE doc.transcripts[1].transcript,
          segments   |-> segments,
          metadata   |->
              [ job_id              |-> "job",
                language            |-> IF j.language_code = None THEN "unknown"
                                        ELSE j.language_code[1],
                processing_duration |-> Some(elapsed),
                audio_duration      |-> IF segments = <<>> THEN None
                                        ELSE Some(segments[Len(segments)].end_time),
                confidence          |-> calculate_average_confidence(segments),
                completed_at        |-> "now" ],
          words      |-> Some(sw[2]) ]

-----------------------------------------------------------------------------
(* wait_for_completion as a state machine (processor.rs:95-146)            *)

\* processor.rs:104-105; the processor is built with some max_segment_length
Init ==
    /\ pc = "loop" /\ check_count = 0 /\ job = None /\ log = <<>>
    /\ transcript_json = None /\ outcome = None
    /\ spc = "idle" /\ results = <<>> /\ max_segment_length \in {2, 3} /\ idx = 0
    /\ words = <<>> /\ seg = InitLocals
    /\ cur_src = <<>> /\ seg_src = <<>> /\ lost = {}
    /\ PipeIdle /\ FnIdle /\ TaskIdle

\* a bug: the reason of the service is not passed on
job_failed_message_no_reason(reason) ==
    "Transcription job failed: " \o "Unknown error"

\* processor.rs:132-134
job_failed_message(reason) ==
    LET failure_reason == IF reason = None THEN "Unknown error" ELSE reason[1]
    IN  "Transcription job failed: " \o failure_reason

\* processor.rs:138
unexpected_status_message == "Unexpected transcription job status"

\* return Err(m) out of wait_for_completion
Fail(r) ==
    /\ outcome' = Some([ok |-> FALSE, value |-> None, err |-> r.err])
    /\ pc' = "done"

\* a bug: a status query that errors is tried again
LoopQueryRetries ==
    /\ pc = "loop" /\ check_count < MaxChecks
    /\ check_count' = check_count + 1
    /\ \E resp \in SendResults :
          LET r == get_transcription_job(resp)
          IN  /\ log' = Append(log, <<"query", QueryResult(r)>>)
              /\ IF r.ok
                 THEN job' = r.value /\ pc' = "match"
                 ELSE pc' = "loop" /\ UNCHANGED job
    /\ UNCHANGED <<transcript_json, outcome>>
    /\ UNCHANGED <<segVars, pipeVars, fnVars, taskVars>>

\* a bug: the loop sleeps before it asks
LoopQuerySleepsFirst ==
    /\ pc = "loop" /\ check_count < MaxChecks
    /\ check_count' = check_count + 1
    /\ \E resp \in SendResults :
          LET r == get_transcription_job(resp)
              slept == IF check_count = 0
                       THEN Append(log, <<"sleep", wait_time(1)>>) ELSE log
          IN  /\ log' = Append(slept, <<"query", QueryResult(r)>>)
              /\ IF r.ok
                 THEN job' = r.value /\ pc' = "match" /\ UNCHANGED outcome
                 ELSE Fail(r) /\ UNCHANGED job
    /\ UNCHANGED transcript_json
    /\ UNCHANGED <<segVars, pipeVars, fnVars, taskVars>>

\* processor.rs:108-111, one status check of the loop
LoopQuery ==
    /\ pc = "loop" /\ check_count < MaxChecks
    /\ check_count' = check_count + 1
    /\ \E resp \in SendResults :
          LET r == get_transcription_job(resp)
          IN  /\ log' = Append(log, <<"query", QueryResult(r)>>)
              /\ IF r.ok
                 THEN job' = r.value /\ pc' = "match" /\ UNCHANGED outcome
                 ELSE Fail(r) /\ UNCHANGED job
    /\ UNCHANGED transcript_json
    /\ UNCHANGED <<segVars, pipeVars, fnVars, taskVars>>

\* a bug: the progress update counts the checks from zero
MatchInProgressFromZero ==
    /\ pc = "match" /\ job[1].transcription_job_status = Some("InProgress")
    /\ log' = Append(log, <<"progress", check_count - 1>>)
    /\ pc' = "sleep"
    /\ job' = None
    /\ UNCHANGED <<check_count, transcript_json, outcome>>
    /\ UNCHANGED <<segVars, pipeVars, fnVars, taskVars>>

\* processor.rs:114-120
MatchInProgress ==
    /\ pc = "match" /\ job[1].transcription_job_status = Some("InProgress")
    /\ log' = Append(log, <<"progress", check_count>>)
    /\ pc' = "sleep"
    /\ job' = None
    /\ UNCHANGED <<check_count, transcript_json, outcome>>
    /\ UNCHANGED <<segVars, pipeVars, fnVars, taskVars>>

\* processor.rs:121-124
Sleep ==
    /\ pc = "sleep"
    /\ log' = Append(log, <<"sleep", wait_time(check_count)>>)
    /\ pc' = "loop"
    /\ UNCHANGED <<check_count, job, transcript_json, outcome>>
    /\ UNCHANGED <<segVars, pipeVars, fnVars, taskVars>>

\* processor.rs:125-128
MatchCompleted ==
    /\ pc = "match" /\ job[1].transcription_job_status = Some("Completed")
    /\ pc' = "requery"
    /\ job' = None
    /\ UNCHANGED <<check_count, log, transcript_json, outcome>>
    /\ UNCHANGED <<segVars, pipeVars, fnVars, taskVars>>

\* processor.rs:129-135
MatchFailed ==
    /\ pc = "match" /\ job[1].transcription_job_status = Some("Failed")
    /\ Fail(Err(job_failed_message(job[1].failure_reason)))
    /\ UNCHANGED <<check_count, job, log, transcript_json>>
    /\ UNCHANGED <<segVars, pipeVars, fnVars, taskVars>>

\* a bug: a job still Queued is waited for like one InProgress
MatchOtherWaits ==
    /\ pc = "match"
    /\ job[1].transcription_job_status \notin
           { Some("InProgress"), Some("Completed"), Some("Failed") }
    /\ IF job[1].transcription_job_status = Some("Queued")
       THEN pc' = "sleep" /\ UNCHANGED outcome
       ELSE Fail(Err(unexpected_status_message))
    /\ UNCHANGED <<check_count, job, log, transcript_json>>
    /\ UNCHANGED <<segVars, pipeVars, fnVars, taskVars>>

\* processor.rs:136-139
MatchOther ==
    /\ pc = "match"
    /\ job[1].transcription_job_status \notin
           { Some("InProgress"), Some("Completed"), Some("Failed") }
    /\ Fail(Err(unexpected_status_message))
    /\ UNCHANGED <<check_count, job, log, transcript_json>>
    /\ UNCHANGED <<segVars, pipeVars, fnVars, taskVars>>

\* processor.rs:143-144, the job is fetched again after the loop
Requery ==
    /\ pc = "requery"
    /\ \E resp \in AfterCompleted :
          LET r == get_transcription_job(resp)
          IN  /\ log' = Append(log, <<"query", QueryResult(r)>>)
              /\ IF r.ok
                 THEN job' = r.value /\ pc' = "uri" /\ UNCHANGED outcome
                 ELSE Fail(r) /\ UNCHANGED job
    /\ UNCHANGED <<check_count, transcript_json>>
    /\ UNCHANGED <<segVars, pipeVars, fnVars, taskVars>>

\* a bug: a job without a result locator yields an empty result
GetUriLenient ==
    /\ pc = "uri"
    /\ IF job[1].transcript # None /\ job[1].transcript[1].transcript_file_uri # None
       THEN pc' = "download" /\ UNCHANGED outcome
       ELSE /\ outcome' = Some(Ok(ProcessedTranscription(
                               [transcripts |-> <<>>, items |-> <<>>],
                               job[1], max_segment_length, Slept(log))))
            /\ pc' = "done"
    /\ UNCHANGED <<check_count, job, log, transcript_json>>
    /\ UNCHANGED <<segVars, pipeVars, fnVars, taskVars>>

\* a bug: a job without a result locator is fetched all the same
GetUriOfAnyJob ==
    /\ pc = "uri"
    /\ pc' = "download"
    /\ UNCHANGED <<check_count, job, log, transcript_json, outcome>>
    /\ UNCHANGED <<segVars, pipeVars, fnVars, taskVars>>

\* processor.rs:168-171
GetUri ==
    /\ pc = "uri"
    /\ IF job[1].transcript # None /\ job[1].transcript[1].transcript_file_uri # None
       THEN pc' = "download" /\ UNCHANGED outcome
       ELSE Fail(Err("No transcript URI found"))
    /\ UNCHANGED <<check_count, job, log, transcript_json>>
    /\ UNCHANGED <<segVars, pipeVars, fnVars, taskVars>>

\* processor.rs:173-174 and 210-222
Download ==
    /\ pc = "download"
    /\ \E http \in HttpResults :
          LET r == download_transcript(http)
          IN  /\ log' = Append(log, <<"fetch", IF r.ok THEN "ok" ELSE "error">>)
              /\ IF r.ok
                 THEN transcript_json' = r.value /\ pc' = "parse" /\ UNCHANGED outcome
                 ELSE Fail(r) /\ UNCHANGED transcript_json
    /\ UNCHANGED <<check_count, job>>
    /\ UNCHANGED <<segVars, pipeVars, fnVars, taskVars>>

\* processor.rs:176-206 and 145
Assemble ==
    /\ pc = "parse"
    /\ LET r == from_str(transcript_json[1])
       IN  IF r.ok
           THEN /\ outcome' = Some(Ok(ProcessedTranscription(
                                 r.value[1], job[1], max_segment_length, Slept(log))))
                /\ pc' = "done"
           ELSE Fail(r)
    /\ UNCHANGED <<check_count, job, log, transcript_json>>
    /\ UNCHANGED <<segVars, pipeVars, fnVars, taskVars>>

Next ==
    \/ LoopQuery
    \/ MatchInProgress
    \/ Sleep
    \/ MatchCompleted
    \/ MatchFailed
    \/ MatchOther
    \/ Requery
    \/ GetUri
    \/ Download
    \/ Assemble

Spec == Init /\ [][Next]_vars

-----------------------------------------------------------------------------
(* Two invocations of wait_for_completion run concurrently, each on its    *)
(* own TranscriptionProcessor (processor.rs:83-146)                        *)

TaskIds == {1, 2}

JobOf(status, reason, transcript) ==
    [ transcription_job_status |-> Some(status),
      failure_reason |-> reason,
      transcript |-> transcript,
      language_code |-> Some("en-US") ]

Answer(j) == [sent |-> TRUE, transcription_job |-> Some(j)]
NoAnswer  == [sent |-> FALSE, transcription_job |-> None]

WithUri == Some([transcript_file_uri |-> Some("https://s3/job.json")])

\* the result document of a recording without speech
SilentDocument == [ transcripts |-> <<[transcript |-> <<>>]>>, items |-> <<>> ]

NoHttp == [sent |-> FALSE, status |-> NotFound, text |-> None]

\* what the service answers once the job is no longer InProgress: to the
\* query of the loop, to the query after the loop, to the download
Ending(last, again, http) == [last |-> last, again |-> again, http |-> http]

Endings ==
    { Ending(NoAnswer, NoAnswer, NoHttp),
      Ending(Answer(JobOf("Failed", Some("Unsupported media format"), None)),
             NoAnswer, NoHttp),
      Ending(Answer(JobOf("Queued", None, None)), NoAnswer, NoHttp),
      Ending(Answer(JobOf("Completed", None, WithUri)), NoAnswer, NoHttp),
      Ending(Answer(JobOf("Completed", None, WithUri)),
             Answer(JobOf("Completed", None, None)), NoHttp),
      Ending(Answer(JobOf("Completed", None, WithUri)),
             Answer(JobOf("Completed", None, WithUri)),
             [sent |-> TRUE, status |-> NotFound, text |-> None]),
      Ending(Answer(JobOf("Completed", None, WithUri)),
             Answer(JobOf("Completed", None, WithUri)),
             [sent |-> TRUE, status |-> HttpOk, text |-> Some(Json(SilentDocument))]) }

\* the job is InProgress for `waits` queries and then ends
Scripts == [ waits : 0..MaxWaits, ending : Endings ]

\* processor.rs:96-105: the locals of one invocation; `asked` counts the
\* queries the service has answered
NewTask ==
    [ pc |-> "loop", check_count |-> 0, job |-> None, log |-> <<>>,
      outcome |-> None, asked |-> 0 ]

\* a bug: one counter for all invocations
check_count_shared(ts, t) ==
    LET RECURSIVE Sum(_)
        Sum(S) == IF S = {} THEN 0
                  ELSE LET x == CHOOSE y \in S : TRUE
                       IN  ts[x].check_count + Sum(S \ {x})
    IN  Sum(DOMAIN ts)

\* processor.rs:105: `let mut check_count`, a local of the invocation
check_count_of(ts, t) == ts[t].check_count

Failed(me, r) == [me EXCEPT !.outcome = Some(Err(r.err[1])), !.pc = "done"]

\* processor.rs:108-111
AfterQuery(ts, a, t) ==
    LET me   == ts[t]
        resp == IF me.asked < a.waits
                THEN Answer(JobOf("InProgress", None, None)) ELSE a.ending.last
        r    == get_transcription_job(resp)
        now  == [me EXCEPT !.check_count = me.check_count + 1,
                           !.asked = me.asked + 1,
                           !.log = Append(me.log, <<"query", QueryResult(r)>>)]
    IN  IF r.ok THEN [now EXCEPT !.job = r.value, !.pc = "match"]
        ELSE Failed(now, r)

\* processor.rs:113-140
AfterMatch(ts, t) ==
    LET me == ts[t]
        status == me.job[1].transcription_job_status
    IN  IF status = Some("InProgress")
        THEN [me EXCEPT !.log = Append(me.log, <<"progress", check_count_of(ts, t)>>),
                        !.pc = "sleep", !.job = None]
        ELSE IF status = Some("Completed")
        THEN [me EXCEPT !.pc = "requery", !.job = None]
        ELSE IF status = Some("Failed")
        THEN Failed(me, Err(job_failed_message(me.job[1].failure_reason)))
        ELSE Failed(me, Err(unexpected_status_message))

\* processor.rs:121-124
AfterSleep(ts, t) ==
    [ts[t] EXCEPT !.log = Append(ts[t].log, <<"sleep", wait_time(check_count_of(ts, t))>>),
                  !.pc = "loop"]

\* processor.rs:143-144
AfterRequery(ts, a, t) ==
    LET me  == ts[t]
        r   == get_transcription_job(a.ending.again)
        now == [me EXCEPT !.asked = me.asked + 1,
                          !.log = Append(me.log, <<"query", QueryResult(r)>>)]
    IN  IF r.ok THEN [now EXCEPT !.job = r.value, !.pc = "result"]
        ELSE Failed(now, r)

\* processor.rs:145 and 163-207
AfterResult(ts, a, t) ==
    LET me == ts[t]
        j  == me.job[1]
        d  == download_transcript(a.ending.http)
        fetched == [me EXCEPT !.log = Append(me.log,
                                  <<"fetch", IF d.ok THEN "ok" ELSE "error">>)]
        parsed == from_str(d.value[1])
    IN  IF j.transcript = None \/ j.transcript[1].transcript_file_uri = None
        THEN Failed(me, Err("No transcript URI found"))
        ELSE IF ~d.ok THEN Failed(fetched, d)
        ELSE IF ~parsed.ok THEN Failed(fetched, parsed)
        ELSE [fetched EXCEPT
                !.outcome = Some(Ok(ProcessedTranscription(
                                parsed.value[1], j, 10 * OneSecond, Slept(me.log)))),
                !.pc = "done"]

InitTasks ==
    /\ PollIdle /\ SegIdle /\ PipeIdle /\ FnIdle
    /\ tasks = [t \in TaskIds |-> NewTask]
    /\ answers \in [TaskIds -> Scripts]

\* one invocation moves on to its next .await, the others stay as they are
Resume(t, next) ==
    /\ tasks' = [tasks EXCEPT ![t] = next]
    /\ UNCHANGED <<answers, pollVars, segVars, pipeVars, fnVars>>

TaskQuery(t)   == tasks[t].pc = "loop"    /\ Resume(t, AfterQuery(tasks, answers[t], t))
TaskMatch(t)   == tasks[t].pc = "match"   /\ Resume(t, AfterMatch(tasks, t))
TaskSleep(t)   == tasks[t].pc = "sleep"   /\ Resume(t, AfterSleep(tasks, t))
TaskRequery(t) == tasks[t].pc = "requery" /\ Resume(t, AfterRequery(tasks, answers[t], t))
TaskResult(t)  == tasks[t].pc = "result"  /\ Resume(t, AfterResult(tasks, answers[t], t))

TaskRun(t) ==
    \/ TaskQuery(t)
    \/ TaskMatch(t)
    \/ TaskSleep(t)
    \/ TaskRequery(t)
    \/ TaskResult(t)

NextTasks == \E t \in TaskIds : TaskRun(t)

SpecTasks == InitTasks /\ [][NextTasks]_vars

\* tokio runs every task that is ready: sleep (processor.rs:123) and the
\* service calls are awaited, none holds the thread
SpecTasksFair == SpecTasks /\ \A t \in TaskIds : WF_vars(TaskRun(t))

-----------------------------------------------------------------------------
(* transcribe_from_url as a state machine (mod.rs:110-151)                 *)

\* extractors::AudioInfo, as far as the pipeline reads it
AudioInfos ==
    { [download_url |-> "https://host/talk.mp3", format |-> "mp3",
       sample_rate |-> Some(44100), title |-> Some(<<"a", "/", "b", " ", "1">>)],
      [download_url |-> "yt-dlp://https://youtu.be/x", format |-> "m4a",
       sample_rate |-> None, title |-> None] }

\* the arguments of mod.rs:111-116 and the configuration read at
\* mod.rs:138, 286, 307, 314
Arguments ==
    [ language               : { None, Some("en-US") },
      speaker_labels         : BOOLEAN,
      max_speakers           : { None, Some(1), Some(5), Some(12) },
      max_segment_length     : { 10 * OneSecond },
      default_language       : { None, Some("es-ES") },
      speaker_identification : BOOLEAN,
      config_max_speakers    : { None, Some(3) },
      keep_audio             : BOOLEAN ]

NoLocals ==
    [ audio_info |-> None, audio_path |-> None, s3_key |-> None,
      request |-> None, job_id |-> None, result |-> None ]

\* an object some other run left in the bucket
OtherKey == "audio_other.mp3"

InitPipe ==
    /\ PollIdle /\ SegIdle /\ FnIdle /\ TaskIdle
    /\ ppc = "extract" /\ args \in Arguments /\ locals = NoLocals
    /\ bucket = {OtherKey} /\ calls = <<>> /\ returned = None

\* a stage ends with Err and `?` returns it (mod.rs:120-139)
Propagate(stage, r) ==
    /\ calls' = Append(calls, <<stage, "error">>)
    /\ returned' = Some(r)
    /\ ppc' = "done"

\* a stage ends with Ok and the next one begins
Proceed(stage, next) ==
    /\ calls' = Append(calls, <<stage, "ok">>)
    /\ ppc' = next
    /\ returned' = returned

\* mod.rs:120
ExtractResults == { Ok(i) : i \in AudioInfos } \cup { Err("extractor error") }

ExtractAudioInfo ==
    /\ ppc = "extract"
    /\ \E r \in ExtractResults :
          IF r.ok
          THEN /\ locals' = [locals EXCEPT !.audio_info = r.value]
               /\ Proceed("extract_audio_info", "download")
          ELSE /\ Propagate("extract_audio_info", r)
               /\ locals' = locals
    /\ UNCHANGED <<args, bucket, pollVars, segVars, fnVars, taskVars>>

\* mod.rs:154-159
TempPath(info) == [dir |-> "tmp", stem |-> "audio_uuid", ext |-> info.format]

IsYtDlp(info) == info.download_url = "yt-dlp://https://youtu.be/x"

\* mod.rs:152-218
DownloadResults(info) ==
    IF IsYtDlp(info)
    THEN { Ok(TempPath(info)), Err("yt-dlp error") }
    ELSE { Ok(TempPath(info)), Err("reqwest error"),
           Err("Failed to download audio: HTTP 404 Not Found"), Err("io error") }

\* mod.rs:123
DownloadAudio ==
    /\ ppc = "download"
    /\ \E r \in DownloadResults(locals.audio_info[1]) :
          IF r.ok
          THEN /\ locals' = [locals EXCEPT !.audio_path = r.value]
               /\ Proceed("download_audio", "upload")
          ELSE /\ Propagate("download_audio", r)
               /\ locals' = locals
    /\ UNCHANGED <<args, bucket, pollVars, segVars, fnVars, taskVars>>

\* mod.rs:222-228
S3Key(info) == "audio_uuid_now." \o info.format

\* mod.rs:220-244: reading the file fails, put_object fails, or the object
\* is stored
UploadResults(info) ==
    { Ok(S3Key(info)), Err("io error"), Err("Failed to upload audio to S3") }

\* mod.rs:126
UploadToS3 ==
    /\ ppc = "upload"
    /\ \E r \in UploadResults(locals.audio_info[1]) :
          IF r.ok
          THEN /\ bucket' = bucket \cup {r.value[1]}
               /\ locals' = [locals EXCEPT !.s3_key = r.value]
               /\ Proceed("upload_to_s3", "start")
          ELSE /\ Propagate("upload_to_s3", r)
               /\ UNCHANGED <<bucket, locals>>
    /\ UNCHANGED <<args, pollVars, segVars, fnVars, taskVars>>

\* mod.rs:262-269
MediaFormat(format) == IF format = "m4a" THEN "mp4" ELSE format

\* u8::clamp(2, 10), mod.rs:318
Clamp(v, lo, hi) == IF v < lo THEN lo ELSE IF v > hi THEN hi ELSE v

\* mod.rs:314-316
max_speakers_count(a) ==
    OrElse(OrElse(a.max_speakers, a.config_max_speakers), Some(10))[1]

\* mod.rs:307
enable_speaker_id(a) == a.speaker_labels \/ a.speaker_identification

\* the request built at mod.rs:255-325
StartRequest(a, info, key) ==
    LET lang == OrElse(a.language, a.default_language)
    IN  [ media_file_uri          |-> "s3://bucket/" \o key,
          media_format            |-> MediaFormat(info.format),
          language_code           |-> lang,
          identify_language       |-> IF lang = None THEN Some(TRUE) ELSE None,
          media_sample_rate_hertz |-> info.sample_rate,
          show_alternatives       |-> Some(TRUE),
          max_alternatives        |-> Some(2),
          show_speaker_labels     |-> IF enable_speaker_id(a) THEN Some(TRUE) ELSE None,
          max_speaker_labels      |-> IF enable_speaker_id(a)
                                      THEN Some(Clamp(max_speakers_count(a), 2, 10))
                                      ELSE None ]

\* mod.rs:327-331
StartResults == { Ok("transcriptor_uuid"), Err("Failed to start transcription job") }

\* a bug: the job is waited for although it could not be started
StartTranscriptionJobUnchecked ==
    /\ ppc = "start"
    /\ \E r \in StartResults :
          /\ locals' = [locals EXCEPT
                 !.request = Some(StartRequest(args, locals.audio_info[1],
                                               locals.s3_key[1])),
                 !.job_id = r.value]
          /\ calls' = Append(calls, <<"start_transcription_job",
                                      IF r.ok THEN "ok" ELSE "error">>)
          /\ ppc' = "wait"
          /\ returned' = returned
    /\ UNCHANGED <<args, bucket, pollVars, segVars, fnVars, taskVars>>

\* mod.rs:129
StartTranscriptionJob ==
    /\ ppc = "start"
    /\ \E r \in StartResults :
          /\ locals' = [locals EXCEPT
                 !.request = Some(StartRequest(args, locals.audio_info[1],
                                               locals.s3_key[1])),
                 !.job_id = r.value]
          /\ IF r.ok THEN Proceed("start_transcription_job", "wait")
                     ELSE Propagate("start_transcription_job", r)
    /\ UNCHANGED <<args, bucket, pollVars, segVars, fnVars, taskVars>>

\* the job record of a job that completed
CompletedJob ==
    [ transcription_job_status |-> Some("Completed"),
      failure_reason |-> None,
      transcript |-> Some([transcript_file_uri |-> Some("https://s3/job.json")]),
      language_code |-> Some("en-US") ]

\* what wait_for_completion returns (processor.rs:95-146, 163-207)
WaitResults(maxlen) ==
    { Ok(ProcessedTranscription(d, CompletedJob, maxlen, 0)) :
        d \in { x \in Documents : Len(x.transcripts) = 1 /\ Len(x.items) \in {0, 3} } }
    \cup { Err(job_failed_message(r)) : r \in FailureReasons }
    \cup { Err("Failed to get transcription job status"),
           Err("Transcription job not found"),
           Err(unexpected_status_message),
           Err("No transcript URI found"),
           Err("Failed to download transcript"),
           Err("Failed to parse transcript JSON") }

\* mod.rs:132 and 334-342
WaitForTranscription ==
    /\ ppc = "wait"
    /\ \E r \in WaitResults(args.max_segment_length) :
          IF r.ok
          THEN /\ locals' = [locals EXCEPT !.result = r.value]
               /\ Proceed("wait_for_transcription", "cleanup")
          ELSE /\ Propagate("wait_for_transcription", r)
               /\ locals' = locals
    /\ UNCHANGED <<args, bucket, pollVars, segVars, fnVars, taskVars>>

\* mod.rs:345-357: delete_object of the key, which the service may refuse
CleanupResults == { Ok("unit"), Err("Failed to clean up S3 object") }

\* mod.rs:135
CleanupS3 ==
    /\ ppc = "cleanup"
    /\ \E r \in CleanupResults :
          IF r.ok
          THEN /\ bucket' = bucket \ {locals.s3_key[1]}
               /\ Proceed("cleanup_s3", "finish")
          ELSE /\ Propagate("cleanup_s3", r)
               /\ bucket' = bucket
    /\ UNCHANGED <<args, locals, pollVars, segVars, fnVars, taskVars>>

\* mod.rs:365-380
PreservedPath(info) ==
    [ dir  |-> "cwd",
      stem |-> IF info.title = None THEN <<"audio_now">>
               ELSE [ i \in 1..Len(info.title[1]) |->
                        IF IsAlphanumeric(info.title[1][i]) \/ info.title[1][i] = " "
                        THEN info.title[1][i] ELSE "_" ],
      ext  |-> info.format ]

\* mod.rs:359-386
PreserveResults(info) == { Ok(PreservedPath(info)), Err("io error") }

\* mod.rs:144-150
TranscriptionResult(l, preserved_audio_path) ==
    [ transcript |-> l.result[1].transcript,
      segments   |-> l.result[1].segments,
      audio_info |-> l.audio_info[1],
      audio_path |-> preserved_audio_path,
      metadata   |-> l.result[1].metadata ]

\* mod.rs:138-150 with keep_audio set
PreserveAudioFile ==
    /\ ppc = "finish" /\ args.keep_audio
    /\ \E r \in PreserveResults(locals.audio_info[1]) :
          IF r.ok
          THEN /\ calls' = Append(calls, <<"preserve_audio_file", "ok">>)
               /\ returned' = Some(Ok(TranscriptionResult(locals, r.value)))
               /\ ppc' = "done"
          ELSE Propagate("preserve_audio_file", r)
    /\ UNCHANGED <<args, locals, bucket, pollVars, segVars, fnVars, taskVars>>

\* mod.rs:138-150 with keep_audio not set
ReturnResult ==
    /\ ppc = "finish" /\ ~args.keep_audio
    /\ returned' = Some(Ok(TranscriptionResult(locals, None)))
    /\ ppc' = "done"
    /\ UNCHANGED <<args, locals, bucket, calls, pollVars, segVars, fnVars, taskVars>>

NextPipe ==
    \/ ExtractAudioInfo
    \/ DownloadAudio
    \/ UploadToS3
    \/ StartTranscriptionJob
    \/ WaitForTranscription
    \/ CleanupS3
    \/ PreserveAudioFile
    \/ ReturnResult

SpecPipe == InitPipe /\ [][NextPipe]_vars

-----------------------------------------------------------------------------
(* Properties of wait_for_completion, checked under Spec                   *)

IsQuery(e) == e[1] = "query"
IsSleep(e) == e[1] = "sleep"

\* the answers of the status queries issued so far, in order
QueryResults == LET q == SelectSeq(log, IsQuery) IN [i \in 1..Len(q) |-> q[i][2]]

\* the seconds of the backoff sleeps so far, in order
SleepSeconds == LET z == SelectSeq(log, IsSleep) IN [i \in 1..Len(z) |-> z[i][2]]

\* the number of status queries among the first i - 1 entries of the log
QueriesBefore(i) == Cardinality({ j \in 1..(i - 1) : IsQuery(log[j]) })

LastEvent == IF log = <<>> THEN <<"none">> ELSE log[Len(log)]

Unexpected == { "None", "Queued", "Unknown" }

C2_QueryCount ==
    pc = "done" =>
        \A n \in 0..MaxChecks :
            ( /\ Len(QueryResults) > n
              /\ \A i \in 1..n : QueryResults[i] = "InProgress"
              /\ QueryResults[n + 1] = "Completed" )
            => /\ Len(SleepSeconds) = n
               /\ \A i \in 1..n : SleepSeconds[i] = 3 + 2 * i
               /\ Len(QueryResults) = n + 1

\* C3: an answer of Failed ends the polling: nothing is slept, queried or
\* fetched after it, and the error returned is the failure message with the
\* reason of the service, or with "Unknown error" when it gave none.
C3_FailedStops ==
    /\ \A i \in DOMAIN log : log[i] = <<"query", "Failed">> => i = Len(log)
    /\ LastEvent = <<"query", "Failed">> => pc \in {"match", "done"}
    /\ (pc = "done" /\ LastEvent = <<"query", "Failed">>) =>
          /\ ~outcome[1].ok
          /\ job[1].failure_reason = Some("Unsupported media format") =>
                outcome[1].err = Some("Transcription job failed: Unsupported media format")
          /\ job[1].failure_reason = None =>
                outcome[1].err = Some("Transcription job failed: Unknown error")
          /\ job[1].failure_reason # None =>
                outcome[1].err =
                    Some("Transcription job failed: " \o job[1].failure_reason[1])

C3_Witness ==
    /\ pc = "done" /\ LastEvent = <<"query", "Failed">>
    /\ job[1].failure_reason = Some("Unsupported media format")
    /\ Len(QueryResults) > 1

\* C4: an answer whose status is absent or none of InProgress, Completed,
\* Failed (Queued included) ends the polling at once with the 'unexpected
\* status' error, a message no JobFailed error has, whatever its reason.
C4_UnexpectedStops ==
    /\ \A i \in DOMAIN log :
          (IsQuery(log[i]) /\ log[i][2] \in Unexpected) => i = Len(log)
    /\ (IsQuery(LastEvent) /\ LastEvent[2] \in Unexpected) => pc \in {"match", "done"}
    /\ (pc = "done" /\ IsQuery(LastEvent) /\ LastEvent[2] \in Unexpected) =>
          /\ ~outcome[1].ok
          /\ outcome[1].err = Some("Unexpected transcription job status")
          /\ \A r \in FailureReasons : outcome[1].err # Some(job_failed_message(r))

C4_Witness ==
    pc = "done" /\ LastEvent = <<"query", "Queued">> /\ Len(QueryResults) > 1

\* C5: a status query that errors is never retried, nothing follows it in
\* the invocation, and a status query is only ever repeated after an answer
\* of InProgress.
C5_OnlyInProgressRequeries ==
    /\ \A i \in DOMAIN log : log[i] = <<"query", "error">> => i = Len(log)
    /\ \A k \in 2..Len(QueryResults) : QueryResults[k - 1] = "InProgress"

\* C6: the loop goes on exactly while the latest answer is InProgress: it is
\* left right after any other answer or an error, and as long as every
\* answer is InProgress it is not left, whatever the number of checks.
InLoop == pc \in {"loop", "match", "sleep"}

C6_LoopWhileInProgress ==
    /\ InLoop => Len(QueryResults) = check_count
    /\ \A i \in 1..(check_count - 1) : QueryResults[i] = "InProgress"
    /\ pc \in {"loop", "sleep"} =>
          \A i \in 1..check_count : QueryResults[i] = "InProgress"
    /\ (check_count >= 1 /\ QueryResults[check_count] # "InProgress") =>
          pc \notin {"loop", "sleep"}
    /\ (\A i \in 1..Len(QueryResults) : QueryResults[i] = "InProgress") =>
          InLoop /\ outcome = None

\* as many checks as the model explores, and the loop still runs
C6_Witness == pc = "loop" /\ check_count = MaxChecks

\* C7: the invocation returns either an error and no ProcessedTranscription,
\* or one ProcessedTranscription with transcript, segments, words and
\* metadata; after any failure nothing more is attempted and no result is
\* returned.
FailureSeen ==
    \/ \E i \in DOMAIN log : log[i] \in { <<"query", "error">>, <<"fetch", "error">> }
    \/ \E i \in 1..Len(QueryResults) :
          QueryResults[i] \in Unexpected \cup {"Failed"}
    \/ pc \in {"download", "parse", "done"} /\ job # None
          /\ job[1].transcription_job_status = Some("Completed")
          /\ (job[1].transcript = None
                 \/ job[1].transcript[1].transcript_file_uri = None)
    \/ transcript_json # None /\ transcript_json[1] = Junk

C7_AllOrNothing ==
    /\ (outcome # None) <=> (pc = "done")
    /\ \A i \in DOMAIN log :
          log[i] \in { <<"query", "error">>, <<"fetch", "error">> } =>
              i = Len(log) /\ pc = "done"
    /\ FailureSeen => pc \in {"match", "parse", "done"}
    /\ pc = "done" =>
          LET o == outcome[1]
          IN  IF FailureSeen
              THEN ~o.ok /\ o.value = None /\ o.err # None
              ELSE /\ o.ok /\ o.err = None /\ o.value # None
                   /\ DOMAIN o.value[1] =
                          {"transcript", "segments", "metadata", "words"}
                   /\ o.value[1].words # None
                   /\ LastEvent = <<"fetch", "ok">>

\* the fetched document does not parse
C7_Witness ==
    /\ pc = "done" /\ LastEvent = <<"fetch", "ok">>
    /\ transcript_json = Some(Junk) /\ ~outcome[1].ok

-----------------------------------------------------------------------------
(* Properties of process_segments, checked under SpecSeg                   *)

\* the number a raw optional string holds, as an Option
NumberOf(o) == IF o # <<>> /\ o[1][1] = "num" THEN <<o[1][2]>> ELSE <<>>

IsPron(i) == results[i].item_type = "pronunciation"

\* the items the first pass has gone through
Scanned == IF spc = "pass1" THEN idx - 1 ELSE Len(results)

\* the Pronunciation items gone through whose start and end are numbers
Timed ==
    { i \in 1..Scanned :
        /\ IsPron(i)
        /\ NumberOf(results[i].start_time) # <<>>
        /\ NumberOf(results[i].end_time) # <<>> }

TimedWithText == { i \in Timed : results[i].alternatives # <<>> }

\* the position of index i among the indices S
Rank(S, i) == Cardinality({ j \in S : j <= i })

\* `words` holds one word for each item of S and no other, in source order
WordsAre(S) ==
    /\ Len(words) = Cardinality(S)
    /\ \A i \in S :
          LET w == words[Rank(S, i)]
          IN  /\ w.start_time = NumberOf(results[i].start_time)[1]
              /\ w.end_time = NumberOf(results[i].end_time)[1]
              /\ w.speaker_id = results[i].speaker_label
              /\ results[i].alternatives # <<>> =>
                    w.word = results[i].alternatives[1].content

\* C8: every Pronunciation item whose start and end are present and numeric
\* is exactly once in the word list, in source order, and the second pass
\* changes nothing of it.
C8_WordsComplete == WordsAre(Timed)

\* C8, amended: the same of the items that also carry an alternative.
C8_WordsCompleteWithText == WordsAre(TimedWithText)

C8_Witness ==
    /\ spc = "done" /\ Len(results) = 3 /\ Len(words) = 1
    /\ \E i \in Timed : results[i].alternatives = <<>>
    /\ \E i \in 1..Len(results) : IsPron(i) /\ i \notin Timed

\* the times of the Pronunciation items, in source order, absent ones left out
RECURSIVE KnownTimes(_)
KnownTimes(i) ==
    IF i > Len(results) THEN <<>>
    ELSE (IF IsPron(i)
          THEN NumberOf(results[i].start_time) \o NumberOf(results[i].end_time)
          ELSE <<>>) \o KnownTimes(i + 1)

NonDecreasing(t) == \A k \in 2..Len(t) : t[k - 1] <= t[k]

TimeOrdered == NonDecreasing(KnownTimes(1))

SegmentsOrdered ==
    \A k \in 2..Len(seg.segments) :
        /\ seg.segments[k - 1].start_time <= seg.segments[k].start_time
        /\ seg.segments[k - 1].end_time <= seg.segments[k].start_time

\* C9: for all inputs the segments have non-decreasing start times and do
\* not overlap: segments[i].end_time <= segments[i+1].start_time.
C9_SegmentsOrdered == SegmentsOrdered

\* C9, amended: so it is for every input whose timestamps are in time order.
C9_SegmentsOrderedOfOrdered == TimeOrdered => SegmentsOrdered

C9_Witness ==
    /\ spc = "done" /\ TimeOrdered /\ Len(results) = 3
    /\ Len(seg.segments) = 2
    /\ seg.segments[1].end_time = seg.segments[2].start_time

\* the speaker labels of the Pronunciation items a segment was made of
SpeakersOf(src) == { results[i].speaker_label : i \in { j \in Range(src) : IsPron(j) } }

\* C10: no segment holds Pronunciation items of two speaker labels, no label
\* being a label of its own.
C10_SpeakerPurity ==
    /\ Len(seg_src) = Len(seg.segments)
    /\ \A k \in DOMAIN seg_src : Cardinality(SpeakersOf(seg_src[k])) <= 1

C10_Witness ==
    /\ spc = "done" /\ Len(seg.segments) = 2
    /\ seg.segments[1].speaker_id = None
    /\ seg.segments[2].speaker_id = Some("spk_0")
    /\ Len(seg_src[1]) = 2

\* the Pronunciation items a segment was made of, in source order
PronOf(src) == SelectSeq(src, IsPron)

\* end minus start of an item whose times are numbers
DurationOf(i) ==
    NumberOf(results[i].end_time)[1] - NumberOf(results[i].start_time)[1]

Span(s) == s.end_time - s.start_time

\* C11: no segment has a span end_time - start_time greater than
\* max_segment_length, unless it consists of a single Pronunciation item
\* whose own duration already exceeds max_segment_length.
C11_LengthCap ==
    \A k \in DOMAIN seg.segments :
        Span(seg.segments[k]) > max_segment_length =>
            /\ k \in DOMAIN seg_src
            /\ Len(PronOf(seg_src[k])) = 1
            /\ DurationOf(PronOf(seg_src[k])[1]) > max_segment_length

\* the items of the segments pushed and of the accumulator
Sources == Range(seg_src) \cup {cur_src}

\* start of item j minus end of item i, both with numeric times
GapBetween(i, j) ==
    NumberOf(results[j].start_time)[1] - NumberOf(results[i].end_time)[1]

NoGapInside(src) ==
    LET p == PronOf(src)
    IN  \A n \in 2..Len(p) :
            (p[n - 1] \in Timed /\ p[n] \in Timed) =>
                GapBetween(p[n - 1], p[n]) <= OneSecond

\* C12: two consecutive Pronunciation items with parsed times whose gap is
\* greater than 1.0 second are never in the same segment, whatever the
\* speaker and the span; Scenario B (a gap of 2.0 s) gives exactly two
\* segments.
C12_GapLaw ==
    /\ \A src \in Sources : NoGapInside(src)
    /\ (spc = "done" /\ results \in ScenarioB) =>
          /\ Len(seg.segments) = 2
          /\ seg_src = << <<1>>, <<2>> >>

C12_Witness ==
    /\ spc = "done" /\ results \in ScenarioB
    /\ Len(seg.segments) = 2
    /\ seg.segments[2].start_time - seg.segments[1].end_time = 2 * OneSecond
    /\ seg.segments[2].end_time - seg.segments[1].start_time < max_segment_length

IsPunct(i) == results[i].item_type = "punctuation"

\* the words of the first n items of src joined by single spaces, the
\* punctuation appended with no space before it
RECURSIVE JoinedText(_, _)
JoinedText(src, n) ==
    IF n = 0 THEN <<>>
    ELSE LET prev == JoinedText(src, n - 1)
             alts == results[src[n]].alternatives
         IN  IF alts = <<>> THEN prev
             ELSE IF IsPunct(src[n]) \/ prev = <<>>
                  THEN prev \o alts[1].content
                  ELSE prev \o <<" ">> \o alts[1].content

\* the Pronunciation items of src that have a numeric end time
WithEnd(src) ==
    SelectSeq(PronOf(src), LAMBDA i : NumberOf(results[i].end_time) # <<>>)

SegmentFields(s, src) ==
    /\ PronOf(src) # <<>> /\ WithEnd(src) # <<>>
    /\ s.start_time = NumberOf(results[PronOf(src)[1]].start_time)[1]
    /\ s.end_time =
          NumberOf(results[WithEnd(src)[Len(WithEnd(src))]].end_time)[1]
    /\ s.text = JoinedText(src, Len(src))

\* C13: a segment starts at the start of its first Pronunciation item, ends
\* at the end of its last Pronunciation item that has an end time, and its
\* text is the Pronunciation words joined by single spaces, each
\* Punctuation item appended with no space before it; Scenario A gives the
\* one segment 0.0-1.0 "Hello world.".
C13_SegmentFields ==
    /\ Len(seg_src) = Len(seg.segments)
    /\ \A k \in DOMAIN seg_src : SegmentFields(seg.segments[k], seg_src[k])
    /\ (spc = "done" /\ results = ScenarioA) =>
          /\ Len(seg.segments) = 1
          /\ seg.segments[1].start_time = 0
          /\ seg.segments[1].end_time = OneSecond
          /\ seg.segments[1].text = HelloWorld

\* C14: Scenario C, max_segment_length 10 s and one speaker's words from
\* 0 to 12 s with no natural break and no gap above 1.0 s, gives at least
\* two segments.
C14_ScenarioC ==
    (spc = "done" /\ results \in ScenarioC /\ max_segment_length = 10 * OneSecond)
        => Len(seg.segments) >= 2

\* the label of the first Pronunciation item of src
FirstSpeaker(src) == results[PronOf(src)[1]].speaker_label

\* C15: a Pronunciation item whose speaker label differs from that of the
\* accumulator opens a new segment, even with no gap and a short span
\* (Scenario D), and the speaker_id of every segment is the label of the
\* first Pronunciation item absorbed into it.
C15_SpeakerSplit ==
    /\ Len(seg_src) = Len(seg.segments)
    /\ \A k \in DOMAIN seg_src :
          /\ PronOf(seg_src[k]) # <<>>
          /\ seg.segments[k].speaker_id = FirstSpeaker(seg_src[k])
    /\ \A src \in Sources :
          \A n \in 2..Len(PronOf(src)) :
              results[PronOf(src)[n]].speaker_label = FirstSpeaker(src)
    /\ (spc = "done" /\ results \in ScenarioD) =>
          /\ seg_src = << <<1>>, <<2>> >>
          /\ seg.segments[1].speaker_id = results[1].speaker_label
          /\ seg.segments[2].speaker_id = results[2].speaker_label

C15_Witness ==
    /\ spc = "done" /\ results \in ScenarioD
    /\ Len(seg.segments) = 2
    /\ seg.segments[1].speaker_id = Some("spk_0")
    /\ seg.segments[2].speaker_id = Some("spk_1")
    /\ seg.segments[2].start_time = seg.segments[1].end_time
    /\ seg.segments[2].end_time - seg.segments[1].start_time < max_segment_length

\* the numeric confidences of the Pronunciation items among src[n..]
RECURSIVE ConfidencesOf(_, _)
ConfidencesOf(src, n) ==
    IF n > Len(src) THEN <<>>
    ELSE (IF IsPron(src[n]) /\ results[src[n]].alternatives # <<>>
          THEN NumberOf(results[src[n]].alternatives[1].confidence)
          ELSE <<>>) \o ConfidencesOf(src, n + 1)

\* the product of the denominators, and the sum of the fractions in D-ths
RECURSIVE CommonDen(_)
CommonDen(cs) == IF cs = <<>> THEN 1 ELSE cs[1].d * CommonDen(Tail(cs))

RECURSIVE SumIn(_, _)
SumIn(cs, D) ==
    IF cs = <<>> THEN 0 ELSE cs[1].n * (D \div cs[1].d) + SumIn(Tail(cs), D)

\* c = (cs[1] + ... + cs[n]) / n, by cross-multiplication
IsMeanOf(c, cs) ==
    /\ cs # <<>>
    /\ c.n * Len(cs) * CommonDen(cs) = SumIn(cs, CommonDen(cs)) * c.d

\* o is the mean of cs, and None when cs is empty
IsOptionMeanOf(o, cs) ==
    IF cs = <<>> THEN o = None ELSE IsSome(o) /\ IsMeanOf(o[1], cs)

\* C16: the confidence of a segment is the arithmetic mean of the
\* confidences of exactly the Pronunciation items absorbed into it that
\* carry a (numeric) confidence, its opening item included, Punctuation
\* items and items of other segments excluded, and None when there is none.
C16_SegmentConfidence ==
    /\ Len(seg_src) = Len(seg.segments)
    /\ \A k \in DOMAIN seg_src :
          IsOptionMeanOf(seg.segments[k].confidence, ConfidencesOf(seg_src[k], 1))

C16_Witness ==
    /\ spc = "done" /\ Len(seg.segments) = 2
    /\ ConfidencesOf(seg_src[1], 1) = << Frac(1, 2), Frac(1, 1) >>
    /\ seg.segments[1].confidence = Some(Frac(3, 4))
    /\ \E i \in Range(seg_src[2]) :
          IsPron(i) /\ results[i].alternatives[1].confidence = Some(Junk)
    /\ seg.segments[2].confidence = None

\* C17: average_confidence gives None, and never 0, for the empty list, and
\* sum/count for a non-empty one, and the same list aggregated twice gives
\* the same value.
C17_AverageConfidence ==
    /\ \A i \in DOMAIN fn_out :
          /\ IsOptionMeanOf(fn_out[i], fn_in)
          /\ fn_in = <<>> => fn_out[i] # Some(Frac(0, 1))
    /\ fn_pc = "again" => Len(fn_out) = 1
    /\ fn_pc = "return" => Len(fn_out) = 2 /\ fn_out[1] = fn_out[2]

C17_Witness ==
    /\ fn_pc = "return"
    /\ fn_in = << Frac(1, 4), Frac(1, 2), Frac(1, 1) >>
    /\ fn_out = << Some(Frac(7, 12)), Some(Frac(7, 12)) >>

-----------------------------------------------------------------------------
(* Properties of process_transcription_result, checked under Spec          *)

\* the confidences of the segments that have one, in order
ConfidencesOfSegments(segments) ==
    LET having == SelectSeq(segments, LAMBDA s : s.confidence # None)
    IN  [ i \in 1..Len(having) |-> having[i].confidence[1] ]

\* C18: in the assembled result metadata.audio_duration is the end_time of
\* the last segment, absent when there is no segment, and
\* metadata.confidence is the unweighted mean of the confidences of the
\* segments that have one, absent when none has.
C18_Metadata ==
    (pc = "done" /\ outcome[1].ok) =>
        LET v == outcome[1].value[1]
        IN  /\ v.metadata.audio_duration =
                  (IF v.segments = <<>> THEN None
                   ELSE Some(v.segments[Len(v.segments)].end_time))
            /\ IsOptionMeanOf(v.metadata.confidence,
                              ConfidencesOfSegments(v.segments))

\* two segments of two words and of one: 3/4 and 1/4, the mean of the three
\* words being 7/12
C18_Witness ==
    /\ pc = "done" /\ outcome[1].ok
    /\ Len(outcome[1].value[1].segments) = 2
    /\ outcome[1].value[1].segments[1].confidence = Some(Frac(3, 4))
    /\ outcome[1].value[1].segments[2].confidence = Some(Frac(1, 4))
    /\ outcome[1].value[1].metadata.confidence = Some(Frac(1, 2))
    /\ outcome[1].value[1].metadata.audio_duration = Some(3)

\* the document that was downloaded and parsed
Parsed == transcript_json[1][2]

\* C19: the transcript text of the ProcessedTranscription is the
\* concatenation of all segment texts in order.
C19_TranscriptOfSegments ==
    (pc = "done" /\ outcome[1].ok) =>
        outcome[1].value[1].transcript = ConcatTexts(outcome[1].value[1].segments)

\* C19, amended: the transcript text is the first entry of the transcripts
\* list of the downloaded document, and empty when the list is empty.
C19_TranscriptOfDocument ==
    (pc = "done" /\ outcome[1].ok) =>
        outcome[1].value[1].transcript =
            (IF Len(Parsed.transcripts) = 0 THEN <<>>
             ELSE Head(Parsed.transcripts).transcript)

C19_Witness ==
    /\ pc = "done" /\ outcome[1].ok
    /\ Len(Parsed.transcripts) = 2
    /\ outcome[1].value[1].transcript = Hello
    /\ Len(outcome[1].value[1].segments) = 2
    /\ outcome[1].value[1].segments[1].text = Hello
    /\ outcome[1].value[1].segments[2].text = World

-----------------------------------------------------------------------------
(* Properties of transcribe_from_url, checked under SpecPipe               *)

Called(stage) == \E i \in DOMAIN calls : calls[i][1] = stage

Succeeded(stage) == \E i \in DOMAIN calls : calls[i] = <<stage, "ok">>

\* C20: once upload_to_s3 has succeeded, cleanup_s3 of that key is invoked
\* on every path on which transcribe_from_url returns, the failure of the
\* job start and of wait_for_transcription included.
C20_UploadCleanedUp ==
    (ppc = "done" /\ Succeeded("upload_to_s3")) => Called("cleanup_s3")

-----------------------------------------------------------------------------
(* Properties of concurrent invocations, checked under SpecTasksFair       *)

\* the step an invocation at `me` takes when no other invocation exists
StepAlone(me, a) ==
    IF me.pc = "loop" THEN AfterQuery(<<me>>, a, 1)
    ELSE IF me.pc = "match" THEN AfterMatch(<<me>>, 1)
    ELSE IF me.pc = "sleep" THEN AfterSleep(<<me>>, 1)
    ELSE IF me.pc = "requery" THEN AfterRequery(<<me>>, a, 1)
    ELSE AfterResult(<<me>>, a, 1)

\* the invocation run alone to its end against the answers a
RECURSIVE Alone(_, _)
Alone(me, a) == IF me.pc = "done" THEN me ELSE Alone(StepAlone(me, a), a)

IsPrefix(s, t) == Len(s) <= Len(t) /\ s = SubSeq(t, 1, Len(s))

\* the queries, progress updates, sleeps and fetches of t so far are those
\* of its run alone, and so is its outcome
AsAlone(t) ==
    LET alone == Alone(NewTask, answers[t])
    IN  /\ IsPrefix(tasks[t].log, alone.log)
        /\ tasks[t].pc = "done" => tasks[t].log = alone.log
                                   /\ tasks[t].outcome = alone.outcome
        /\ tasks[t].pc # "done" => tasks[t].outcome = None

\* whatever the other invocations are doing, t can take its next step
NeverHeldUp(t) == tasks[t].pc # "done" => ENABLED TaskRun(t)

\* C21: under any interleaving of two invocations of wait_for_completion
\* the queries, sleeps and outcome of each are those of its run alone, no
\* invocation is ever held up by the other (sleeping or not), and each
\* reaches its end.
C21_Independent ==
    /\ [](\A t \in TaskIds : AsAlone(t) /\ NeverHeldUp(t))
    /\ \A t \in TaskIds : <>(tasks[t].pc = "done")

\* one invocation has ended with a result while the other, which began
\* first, is still asleep in its second backoff
C21_Witness ==
    /\ tasks[1].pc = "sleep" /\ tasks[1].check_count = 2
    /\ tasks[2].pc = "done" /\ tasks[2].outcome[1].ok
    /\ tasks[2].check_count = 3
    /\ tasks[2].log[3] = <<"sleep", 5>> /\ tasks[2].log[6] = <<"sleep", 7>>

-----------------------------------------------------------------------------
(* Properties of the helpers of utils/mod.rs                               *)

\* "{h}h {m}m {s}s", "{m}m {s}s" or "{s}s"
Rendered(h, m, s) ==
    IF h > 0 THEN ToString(h) \o "h " \o ToString(m) \o "m " \o ToString(s) \o "s"
    ELSE IF m > 0 THEN ToString(m) \o "m " \o ToString(s) \o "s"
    ELSE ToString(s) \o "s"

\* the argument is a whole number of seconds, and not negative
WholeSeconds == fn_in >= 0 /\ fn_in % OneSecond = 0

\* C22: for a non-negative whole number of seconds t format_duration prints
\* the h, m < 60 and s < 60 with h*3600 + m*60 + s = t, as "{h}h {m}m {s}s"
\* when h > 0, "{m}m {s}s" when h = 0 < m, "{s}s" otherwise; 30 gives
\* "30s", 90 "1m 30s", 3661 "1h 1m 1s".
C22_FormatDuration ==
    (fn_pc = "return" /\ WholeSeconds) =>
        LET t == fn_in \div OneSecond
        IN  /\ \E h \in 0..(t \div 3600), m \in 0..59 :
                  LET s == t - h * 3600 - m * 60
                  IN  s >= 0 /\ s < 60 /\ fn_out = Rendered(h, m, s)
            /\ t = 30 => fn_out = "30s"
            /\ t = 90 => fn_out = "1m 30s"
            /\ t = 3661 => fn_out = "1h 1m 1s"

C22_Witness ==
    /\ fn_pc = "return" /\ fn_in = 3661 * OneSecond /\ fn_out = "1h 1m 1s"

AllowedChar(c) == c \in {"a", "b", "1", " ", "-", "_", "."}

\* m is s with every character outside the allowed set replaced by "_"
IsReplaced(m, s) ==
    /\ Len(m) = Len(s)
    /\ \A i \in 1..Len(s) : m[i] = IF AllowedChar(s[i]) THEN s[i] ELSE "_"

\* r is m without its leading and trailing whitespace
IsStripped(r, m) ==
    /\ r # <<>> => r[1] \notin {" ", "\t"} /\ r[Len(r)] \notin {" ", "\t"}
    /\ \E a \in 1..(Len(m) + 1) :
          /\ a + Len(r) - 1 <= Len(m)
          /\ r = SubSeq(m, a, a + Len(r) - 1)
          /\ \A i \in 1..Len(m) :
                (i < a \/ i > a + Len(r) - 1) => m[i] \in {" ", "\t"}

\* C23: sanitize_filename replaces every character that is not
\* alphanumeric, space, '-', '_' or '.' by one '_', keeps the others in
\* order and then strips leading and trailing whitespace; every character
\* of the result is allowed, and sanitizing the result returns it unchanged.
C23_SanitizeFilename ==
    fn_out # <<>> =>
        /\ \E m \in [1..Len(fn_in) -> FilenameChars] :
              IsReplaced(m, fn_in) /\ IsStripped(fn_out[1], m)
        /\ \A i \in 1..Len(fn_out[1]) : AllowedChar(fn_out[1][i])
        /\ fn_pc = "return" => fn_out[2] = fn_out[1]

\* a tab is replaced and so not stripped, a space is stripped
C23_Witness ==
    /\ fn_pc = "return"
    /\ fn_in = <<"\t", "/", " ">>
    /\ fn_out = << <<"_", "_">>, <<"_", "_">> >>

\* two characters that differ in case at most
SameLetter(c, d) ==
    \/ c = d
    \/ \E k \in 1..Len(UpperCase) : {c, d} = {UpperCase[k], LowerCase[k]}

EqualsIgnoringCase(a, b) ==
    /\ Len(a) = Len(b)
    /\ \A i \in 1..Len(a) : SameLetter(a[i], b[i])

\* the row of the table that knows the language, if one does
KnownAs(lang, row) ==
    EqualsIgnoringCase(lang, row.code) \/ EqualsIgnoringCase(lang, row.name)

\* C24: normalize_language_code maps each known short code or English
\* language name, compared case-insensitively, to its fixed locale, returns
\* every other input unchanged, and normalizing a result returns that result.
C24_NormalizeLanguageCode ==
    fn_out # <<>> =>
        /\ \A k \in 1..Len(Locales) :
              KnownAs(fn_in, Locales[k]) => fn_out[1] = Locales[k].locale
        /\ (\A k \in 1..Len(Locales) : ~KnownAs(fn_in, Locales[k])) => fn_out[1] = fn_in
        /\ fn_in = <<"z", "h", "-", "T", "W">> => fn_out[1] = fn_in
        /\ fn_pc = "return" => fn_out[2] = fn_out[1]

\* "English" has become en-US, and en-US has stayed en-US
C24_Witness ==
    /\ fn_pc = "return"
    /\ fn_in = <<"E", "n", "g", "l", "i", "s", "h">>
    /\ fn_out = << <<"e", "n", "-", "U", "S">>, <<"e", "n", "-", "U", "S">> >>

(***************************************************************************)
(* The order of the steps of wait_for_completion                           *)
(***************************************************************************)
IsProgress(e) == e[1] = "progress"
IsFetch(e) == e[1] = "fetch"

Terminal == {"Completed", "Failed"} \cup Unexpected

\* C25: no InProgress is assumed on entry: when the first status query
\* returns Completed, Failed or an unexpected status, nothing is slept and no
\* progress is reported before that status is acted on, and nothing is
\* slept or reported before the first query either.
C25_NoWaitOnTerminalFirst ==
    /\ log # <<>> => IsQuery(log[1])
    /\ (Len(QueryResults) >= 1 /\ QueryResults[1] \in Terminal) =>
          /\ \A i \in DOMAIN log : ~IsSleep(log[i]) /\ ~IsProgress(log[i])
          /\ check_count = 1
          /\ pc \notin {"loop", "sleep"}

\* the first answer was Completed and the result was returned without a wait
C25_Witness ==
    /\ pc = "done" /\ outcome[1].ok
    /\ log = << <<"query", "Completed">>, <<"query", "Completed">>, <<"fetch", "ok">> >>

\* the place in the log of the k-th status query
QueryAt(k) ==
    CHOOSE i \in DOMAIN log : IsQuery(log[i]) /\ QueriesBefore(i) = k - 1

\* the poll loop is left untouched by a step that stays inside it, but for
\* the counter, which at most goes up by one
LoopFrame ==
    (InLoop /\ pc' \in {"loop", "match", "sleep"}) =>
        /\ UNCHANGED <<transcript_json, outcome, segVars, pipeVars, fnVars, taskVars>>
        /\ check_count' \in {check_count, check_count + 1}
        /\ check_count' # check_count <=> IsQuery(log'[Len(log')]) /\ log' # log

InProgressSteps ==
    /\ \A i \in DOMAIN log :
          log[i] = <<"query", "InProgress">> =>
              /\ i + 1 \in DOMAIN log => log[i + 1] = <<"progress", QueriesBefore(i) + 1>>
              /\ i + 2 \in DOMAIN log => IsSleep(log[i + 2])
              /\ i + 3 \in DOMAIN log => IsQuery(log[i + 3])
              /\ i = Len(log) => pc = "match"
              /\ i + 1 = Len(log) => pc = "sleep"
              /\ i + 2 = Len(log) => pc = "loop"
    /\ \A i \in DOMAIN log :
          IsProgress(log[i]) => i > 1 /\ log[i - 1] = <<"query", "InProgress">>
    /\ \A i \in DOMAIN log :
          IsSleep(log[i]) => i > 1 /\ IsProgress(log[i - 1])
    /\ Len(QueryResults) >= check_count
    /\ InLoop => Len(QueryResults) = check_count
    /\ \A k \in 2..check_count :
          Cardinality({ i \in QueryAt(k - 1)..QueryAt(k) : IsSleep(log[i]) }) = 1

\* C26: each answer of InProgress is followed by one progress update that
\* carries the number of checks so far, counted from one, then one backoff
\* sleep, then one new status query; each iteration of the loop makes one
\* status query, two queries of the loop have a sleep between them, and a
\* step of the loop changes nothing but the check counter.
C26_InProgressSteps == []InProgressSteps /\ [][LoopFrame]_vars

\* three checks: two waits reported as check 1 and check 2, then a new query
C26_Witness ==
    /\ pc = "match" /\ check_count = 3
    /\ SubSeq(log, 1, 6) =
          << <<"query", "InProgress">>, <<"progress", 1>>, <<"sleep", 5>>,
             <<"query", "InProgress">>, <<"progress", 2>>, <<"sleep", 7>> >>
    /\ IsQuery(log[7])

\* C27: the result document is fetched at most once in an invocation, only
\* after a status query has answered Completed, never after an answer of
\* Failed or an unexpected one or a status query that failed, and never for
\* a job record without a result locator.
C27_FetchOnce ==
    /\ Cardinality({ i \in DOMAIN log : IsFetch(log[i]) }) <= 1
    /\ \A i \in DOMAIN log :
          IsFetch(log[i]) =>
              /\ \E j \in 1..(i - 1) : log[j] = <<"query", "Completed">>
              /\ \A j \in 1..(i - 1) :
                    IsQuery(log[j]) => log[j][2] \in {"InProgress", "Completed"}
              /\ i = Len(log)
              /\ job # None /\ job[1].transcript # None
              /\ job[1].transcript[1].transcript_file_uri # None
    /\ (pc \in {"download", "parse"} \/ (pc = "done" /\ outcome[1].ok)) =>
          /\ job[1].transcript # None
          /\ job[1].transcript[1].transcript_file_uri # None
    /\ (pc = "done" /\ outcome[1].err \in
            { Some("No transcript URI found"), Some("Unexpected transcription job status"),
              Some("Failed to get transcription job status"),
              Some("Transcription job not found") }
            \cup { Some(job_failed_message(r)) : r \in FailureReasons }) =>
          \A i \in DOMAIN log : ~IsFetch(log[i])

\* one fetch that failed, after a wait, and no second one
C27_Witness ==
    /\ pc = "done" /\ ~outcome[1].ok
    /\ log = << <<"query", "InProgress">>, <<"progress", 1>>, <<"sleep", 5>>,
                <<"query", "Completed">>, <<"query", "Completed">>, <<"fetch", "error">> >>

\* C28: once a status query has answered Completed no status query follows
\* it, and the invocation can then fail only with a retrieval or parse
\* error, never with the error of a status query.
C28_NoStatusErrorAfterCompleted ==
    /\ \A i \in DOMAIN log :
          log[i] = <<"query", "Completed">> =>
              \A j \in (i + 1)..Len(log) : ~IsQuery(log[j])
    /\ (pc = "done" /\ ~outcome[1].ok
          /\ \E i \in DOMAIN log : log[i] = <<"query", "Completed">>) =>
          outcome[1].err \notin { Some("Failed to get transcription job status"),
                                  Some("Transcription job not found") }

(***************************************************************************)
(* The comparisons of the split and the effect of punctuation              *)
(***************************************************************************)
\* the item the second pass is about to take
AtItem == spc = "pass2" /\ idx <= Len(results)

\* start of the item less the end, or the start, of the accumulator
FromEnd(item)   == start_time(item)[1] - seg.current_end_time[1]
FromStart(item) == start_time(item)[1] - seg.current_start_time[1]

SentenceEnd(item) ==
    /\ item.alternatives # <<>> /\ item.alternatives[1].content # <<>>
    /\ item.alternatives[1].content[Len(item.alternatives[1].content)] \in {".", "!", "?"}

\* a word of the speaker of a non-empty accumulator, none of whose distances
\* is above its limit and one of which is exactly at it
AtLimit(item) ==
    /\ item.item_type = "pronunciation"
    /\ item.speaker_label = seg.current_speaker
    /\ seg.current_segment_text # <<>>
    /\ IsSome(start_time(item))
    /\ IsSome(seg.current_start_time) /\ IsSome(seg.current_end_time)
    /\ FromEnd(item) <= OneSecond
    /\ FromStart(item) <= max_segment_length
    /\ SentenceEnd(item) => 2 * FromStart(item) <= max_segment_length
    /\ \/ FromEnd(item) = OneSecond
       \/ FromStart(item) = max_segment_length
       \/ SentenceEnd(item) /\ 2 * FromStart(item) = max_segment_length

Absorbed(item) ==
    /\ seg'.segments = seg.segments
    /\ seg'.current_start_time = seg.current_start_time
    /\ seg'.current_speaker = seg.current_speaker
    /\ seg'.current_segment_text =
          Append(seg.current_segment_text, " ") \o item.alternatives[1].content
    /\ cur_src' = Append(cur_src, idx)
    /\ seg_src' = seg_src

\* C29: the comparisons of the split are strict: a word of the same speaker
\* that starts exactly 1.0 s after the end of a non-empty accumulator, or
\* exactly max_segment_length after its start, or, ending in '.', '!' or
\* '?', exactly half of max_segment_length after its start, is not split
\* off for that and is absorbed into the current segment.
C29_StrictComparisons ==
    [][ (AtItem /\ AtLimit(results[idx])) => Absorbed(results[idx]) ]_vars

\* max_segment_length 2.0 s: a sentence end exactly 1.0 s after the end and
\* the start of the accumulator, then a word 1.0 s after its end and 2.0 s
\* after its start, in one accumulator with the first word
C29_Witness ==
    /\ spc = "pass2" /\ idx = 4 /\ max_segment_length = 2 * OneSecond
    /\ results[2].alternatives[1].content = <<".">>
    /\ results[2].start_time = Some(Num(OneSecond))
    /\ results[3].start_time = Some(Num(2 * OneSecond))
    /\ cur_src = <<1, 2, 3>> /\ seg.segments = <<>>
    /\ seg.current_start_time = Some(0) /\ seg.current_end_time = Some(2 * OneSecond)

PunctuationText(item) ==
    IF item.alternatives = <<>> THEN <<>> ELSE item.alternatives[1].content

\* the last Pronunciation item before item i, 0 if there is none
PronBefore(i) ==
    LET before == { j \in 1..(i - 1) : results[j].item_type = "pronunciation" }
    IN  IF before = {} THEN 0 ELSE CHOOSE j \in before : \A k \in before : k <= j

PunctuationOnlyAppends ==
    (AtItem /\ results[idx].item_type = "punctuation") =>
        /\ seg'.current_segment_text =
              seg.current_segment_text \o PunctuationText(results[idx])
        /\ seg'.segments = seg.segments
        /\ seg'.current_start_time = seg.current_start_time
        /\ seg'.current_end_time = seg.current_end_time
        /\ seg'.current_speaker = seg.current_speaker
        /\ seg'.confidences = seg.confidences
        /\ seg_src' = seg_src /\ lost' = lost /\ words' = words
        /\ PronBefore(idx) # 0 =>
              /\ PronBefore(idx) \in Range(cur_src)
              /\ PronBefore(idx) \in Range(cur_src')

PunctuationIsNoWord ==
    (spc = "pass1" /\ idx <= Len(results) /\ results[idx].item_type = "punctuation")
        => words' = words

\* C30: a Punctuation item only appends its text, with no separating space,
\* to the text of the accumulator, which is the segment of the Pronunciation
\* item before it; it pushes no segment and starts none, leaves the start
\* time, end time, speaker and confidences of the accumulator as they are,
\* and adds no entry to the word list.
C30_PunctuationOnlyAppends ==
    [][PunctuationOnlyAppends /\ PunctuationIsNoWord]_vars

\* Scenario A after its full stop
C30_Witness ==
    /\ spc = "pass2" /\ idx = 4 /\ results = ScenarioA
    /\ seg.current_segment_text = HelloWorld
    /\ seg.current_start_time = Some(0) /\ seg.current_end_time = Some(OneSecond)
    /\ seg.segments = <<>> /\ Len(words) = 2
    /\ cur_src = <<1, 2, 3>>

(***************************************************************************)
(* Items without times                                                     *)
(***************************************************************************)
\* the items of src whose start and end are both numbers
TimedOf(src) == SelectSeq(src, LAMBDA i : i \in Timed)

\* the segment has its times and its confidence from the timed items alone
FromTimedItems(s, src) ==
    LET t == TimedOf(src)
    IN  /\ t # <<>>
        /\ s.start_time = NumberOf(results[t[1]].start_time)[1]
        /\ s.end_time = NumberOf(results[t[Len(t)]].end_time)[1]
        /\ IsOptionMeanOf(s.confidence, ConfidencesOf(t, 1))

\* every item with an alternative that went into the segment is in its text
TextOfAll(s, src) ==
    \A n \in 1..Len(src) :
        results[src[n]].alternatives # <<>> =>
            \E a \in 1..Len(s.text) :
                LET c == results[src[n]].alternatives[1].content
                IN  a + Len(c) - 1 <= Len(s.text) /\ SubSeq(s.text, a, a + Len(c) - 1) = c

\* C31: a Pronunciation item whose start or end is missing or unparseable is
\* no error: it is not in the word list, its text can still go into a
\* segment, and no segment has its start_time, end_time or confidence from it.
C31_UntimedItems ==
    /\ WordsAre(TimedWithText)
    /\ Len(seg_src) = Len(seg.segments)
    /\ \A k \in DOMAIN seg_src :
          /\ TextOfAll(seg.segments[k], seg_src[k])
          /\ FromTimedItems(seg.segments[k], seg_src[k])

\* a Pronunciation item neither of whose times is a number
Untimed(item) ==
    /\ item.item_type = "pronunciation"
    /\ NumberOf(item.start_time) = <<>>
    /\ NumberOf(item.end_time) = <<>>

\* C32: only an item whose times did parse triggers a split: a Pronunciation
\* item whose start and end are missing or unparseable, met while a segment
\* is being accumulated, closes no segment and starts none.
C32_UntimedNeverSplits ==
    [][ (AtItem /\ Untimed(results[idx]) /\ seg.current_segment_text # <<>>) =>
            /\ seg'.segments = seg.segments
            /\ seg'.current_start_time = seg.current_start_time
            /\ seg'.current_speaker = seg.current_speaker
            /\ cur_src' = Append(cur_src, idx) ]_vars

(***************************************************************************)
(* The natural break                                                       *)
(***************************************************************************)
BothStartsKnown(item) ==
    NumberOf(item.start_time) # <<>> /\ IsSome(seg.current_start_time)

PastHalf(item) ==
    BothStartsKnown(item)
        /\ 2 * (NumberOf(item.start_time)[1] - seg.current_start_time[1]) > max_segment_length

\* no trigger of a split other than the natural break applies to the item
NoOtherTrigger(item) ==
    /\ item.speaker_label = seg.current_speaker
    /\ seg.current_segment_text # <<>>
    /\ (NumberOf(item.start_time) # <<>> /\ IsSome(seg.current_end_time)) =>
          NumberOf(item.start_time)[1] - seg.current_end_time[1] <= OneSecond
    /\ BothStartsKnown(item) =>
          NumberOf(item.start_time)[1] - seg.current_start_time[1] <= max_segment_length

\* the accumulator is pushed if it can be and reset to the item
OpensSegment(item) ==
    /\ cur_src' = <<idx>>
    /\ seg'.current_segment_text = item.alternatives[1].content
    /\ seg'.current_start_time = NumberOf(item.start_time)
    /\ Pushes(seg) =>
          /\ Len(seg'.segments) = Len(seg.segments) + 1
          /\ seg_src' = Append(seg_src, cur_src)
          /\ idx \notin Range(seg_src'[Len(seg_src')])

NaturalBreakStep ==
    (AtItem /\ results[idx].item_type = "pronunciation") =>
        LET item == results[idx]
        IN  /\ (SentenceEnd(item) /\ PastHalf(item)) => OpensSegment(item)
            /\ (SentenceEnd(item) /\ NoOtherTrigger(item) /\ ~PastHalf(item)) =>
                  Absorbed(item)
            /\ (~SentenceEnd(item) /\ NoOtherTrigger(item)
                   /\ item.alternatives # <<>>) => Absorbed(item)

\* C33: a Pronunciation item that ends with '.', '!' or '?' splits by the
\* natural break only when its start and the start of the accumulator are
\* both known and the item starts more than max_segment_length/2 after the
\* accumulator; with no other trigger and a span of at most half the length
\* it is absorbed, and when it splits, the item is the first of the new
\* segment and not the last of the closed one.
C33_NaturalBreak == [][NaturalBreakStep]_vars

\* max_segment_length 1.5 s: a sentence end 1.0 s after the start of the
\* accumulator and 0.5 s after its end has opened the second segment
C33_Witness ==
    /\ spc = "pass2" /\ idx = 3 /\ max_segment_length = 3
    /\ results[1].start_time = Some(Num(0)) /\ results[1].end_time = Some(Num(1))
    /\ results[1].speaker_label = results[2].speaker_label
    /\ results[2].item_type = "pronunciation"
    /\ results[2].start_time = Some(Num(2))
    /\ results[2].alternatives[1].content = <<".">>
    /\ seg_src = << <<1>> >> /\ cur_src = <<2>>
    /\ Len(seg.segments) = 1 /\ seg.current_segment_text = <<".">>

(***************************************************************************)
(* The end time of the accumulator                                         *)
(***************************************************************************)
\* the step absorbs a Pronunciation item into the accumulator
Absorbs ==
    /\ AtItem /\ results[idx].item_type = "pronunciation"
    /\ cur_src' = Append(cur_src, idx)

\* the end of the item if it has one, the end as it was otherwise
EndMerged ==
    Absorbs =>
        /\ seg'.current_end_time =
              (IF NumberOf(results[idx].end_time) # <<>>
               THEN NumberOf(results[idx].end_time)
               ELSE seg.current_end_time)
        /\ IsSome(seg.current_end_time) => IsSome(seg'.current_end_time)

EndNotBackward ==
    (Absorbs /\ IsSome(seg.current_end_time)) =>
        seg'.current_end_time[1] >= seg.current_end_time[1]

\* C34: an absorbed Pronunciation item sets the end of the accumulator to
\* its own end if it has one and leaves it as it was otherwise; a known end
\* is never replaced by an absent one, and within a segment the end never
\* moves backward.
C34_EndMonotonic == [][EndMerged /\ EndNotBackward]_vars

\* C34, amended: the end never moves backward when the timestamps of the
\* stream are in time order.
C34_EndMonotonicOfOrdered ==
    [][EndMerged /\ (TimeOrdered => EndNotBackward)]_vars

\* a word 0.0-0.5, then a word from 0.5 with no end absorbed: the end is
\* still 0.5
C34_Witness ==
    /\ spc = "pass2" /\ idx = 3 /\ TimeOrdered
    /\ results[1].end_time = Some(Num(1))
    /\ results[2].item_type = "pronunciation"
    /\ results[2].start_time = Some(Num(1)) /\ results[2].end_time = None
    /\ cur_src = <<1, 2>>
    /\ seg.current_end_time = Some(1)

(***************************************************************************)
(* What is pushed, and what is lost                                        *)
(***************************************************************************)
\* the segment the accumulator describes
BuiltFrom(s, st) ==
    /\ <<s.start_time>> = st.current_start_time
    /\ <<s.end_time>> = st.current_end_time
    /\ s.text = Trim(st.current_segment_text)
    /\ s.speaker_id = st.current_speaker
    /\ IsOptionMeanOf(s.confidence, st.confidences)

PushedOne ==
    /\ Len(seg'.segments) = Len(seg.segments) + 1
    /\ SubSeq(seg'.segments, 1, Len(seg.segments)) = seg.segments
    /\ BuiltFrom(seg'.segments[Len(seg'.segments)], seg)

\* a Pronunciation item resets the accumulator to itself, or the stream ends
Splits == AtItem /\ results[idx].item_type = "pronunciation" /\ cur_src' = <<idx>>
Ends   == spc = "pass2" /\ spc' = "done"

\* C35: a split met with a non-empty accumulator pushes exactly one segment
\* made of the accumulator's start, end, text, speaker and mean confidence
\* before the accumulator is reset, the end of the stream pushes a non-empty
\* accumulator as the final segment, and no accumulated text is discarded
\* without being emitted.
C35_NothingDiscarded ==
    [][ ((Splits \/ Ends) /\ seg.current_segment_text # <<>>) => PushedOne ]_vars

RECURSIVE Flat(_)
Flat(ss) == IF ss = <<>> THEN <<>> ELSE Head(ss) \o Flat(Tail(ss))

\* a Pronunciation item that has a text
HasWord(i) ==
    /\ IsPron(i) /\ results[i].alternatives # <<>>
    /\ results[i].alternatives[1].content # <<>>

AllPronTimed == \A i \in 1..Len(results) : IsPron(i) => i \in Timed

\* C36: when every Pronunciation item has a valid start and end, wherever
\* the Punctuation items are, the text of every Pronunciation item is in
\* exactly one emitted segment, and the segments hold the Pronunciation
\* items in source order, none left out.
C36_Coverage ==
    (spc = "done" /\ AllPronTimed) =>
        /\ Len(seg_src) = Len(seg.segments)
        /\ SelectSeq(Flat(seg_src), HasWord)
              = SelectSeq([i \in 1..Len(results) |-> i], HasWord)
        /\ \A k \in DOMAIN seg_src : TextOfAll(seg.segments[k], seg_src[k])

\* C37: every emitted segment has a start_time and an end_time with
\* start_time <= end_time, for every stream in time order whose items have
\* start <= end, items without a start or an end among them.
C37_StartBeforeEnd ==
    TimeOrdered =>
        \A k \in DOMAIN seg.segments :
            /\ seg.segments[k].start_time \in Int
            /\ seg.segments[k].end_time \in Int
            /\ seg.segments[k].start_time <= seg.segments[k].end_time

\* a word from 0.5 with no end opens the segment, the next word 0.5-1.0 gives
\* it its end
C37_Witness ==
    /\ spc = "done" /\ TimeOrdered /\ Len(results) = 2
    /\ results[1].item_type = "pronunciation"
    /\ results[1].start_time = Some(Num(1)) /\ results[1].end_time = None
    /\ results[2].end_time = Some(Num(2))
    /\ seg_src = << <<1, 2>> >>
    /\ Len(seg.segments) = 1
    /\ seg.segments[1].start_time = 1 /\ seg.segments[1].end_time = 2

(***************************************************************************)
(* The words of the first pass                                             *)
(***************************************************************************)
\* the confidence of the first alternative of item i, if it is a number
ConfidenceOfItem(i) == NumberOf(results[i].alternatives[1].confidence)

\* C38: every WordTimestamp of the first pass is that of a Pronunciation
\* item whose start and end are present and parse as non-negative numbers,
\* with the word, times, confidence and speaker of that item; Punctuation
\* items and items with a missing, unparseable or negative time give none.
C38_WordsOfValidItems ==
    /\ WordsAre(TimedWithText)
    /\ \A i \in TimedWithText :
          words[Rank(TimedWithText, i)].confidence = ConfidenceOfItem(i)
    /\ \A n \in DOMAIN words : words[n].start_time >= 0 /\ words[n].end_time >= 0

(***************************************************************************)
(* The order of the stages of transcribe_from_url, under SpecPipe          *)
(***************************************************************************)
StageOrder ==
    << "extract_audio_info", "download_audio", "upload_to_s3",
       "start_transcription_job", "wait_for_transcription", "cleanup_s3",
       "preserve_audio_file" >>

\* C39: the stages run in the order extract, download, upload, start job,
\* poll, delete upload, each at most once; the job is started only after the
\* upload succeeded and polled only after its start succeeded; the uploaded
\* object is deleted only after the poll returned the assembled result of
\* the Completed job; a stage that fails is the last one to run.
C39_StageOrder ==
    /\ Len(calls) <= Len(StageOrder)
    /\ \A i \in DOMAIN calls : calls[i][1] = StageOrder[i]
    /\ \A i \in 1..(Len(calls) - 1) : calls[i][2] = "ok"
    /\ (calls # <<>> /\ calls[Len(calls)][2] = "error") =>
          ppc = "done" /\ ~returned[1].ok
    /\ Called("start_transcription_job") => Succeeded("upload_to_s3")
    /\ Called("wait_for_transcription") => Succeeded("start_transcription_job")
    /\ Called("cleanup_s3") =>
          /\ Succeeded("wait_for_transcription")
          /\ locals.result # None
    /\ (Succeeded("upload_to_s3") /\ ~Succeeded("cleanup_s3")) =>
          locals.s3_key[1] \in bucket

\* the poll has failed: the run is over and the upload was not deleted
C39_Witness ==
    /\ ppc = "done"
    /\ Len(calls) = 5
    /\ calls[5] = <<"wait_for_transcription", "error">>
    /\ returned[1].err = Some("Failed to download transcript")
    /\ locals.s3_key[1] \in bucket

====
